---- MODULE Spec2Model ----
(***************************************************************************)
(* Model of the Tableland transaction processor (pkg/txn/impl/processor.go)*)
(* and of the ACL helpers it uses (internal/tableland/acl.go).             *)
(*                                                                         *)
(* The processor owns a one-slot channel chBatch holding a single token.   *)
(* Callers run OpenBatch / InsertTable / ExecWriteQueries / Commit / Close *)
(* on it concurrently; every blocking channel operation is a step of its   *)
(* own, the store calls made inside one savepoint are one step.            *)
(*                                                                         *)
(* The query validator (pkg/parsing/impl) is modelled as pure operators on *)
(* parsed statements; ValidatorSpec applies its entry points to a query    *)
(* drawn from bounded sets of statements.                                  *)
(***************************************************************************)
EXTENDS Integers, Sequences, FiniteSets, TLC

\* ------------------------------------------------------------------------
\* Bounds of the model
\* ------------------------------------------------------------------------
MaxStmts == 2
MaxInsert == 2
MaxClose == 2
CapValue == 2
RowBound == 4

Callers == {"c1", "c2"}
Addrs == {"owner", "other"}
TableIDs == {1, 2}
RelPrefixes == {"_", "t"}
RelNames == RelPrefixes \X TableIDs

\* ------------------------------------------------------------------------
\* internal/tableland/acl.go
\* ------------------------------------------------------------------------
PrivInsert == "a"
PrivUpdate == "w"
PrivDelete == "d"
Privs == {PrivInsert, PrivUpdate, PrivDelete}

operationPrivilegeMap ==
    [op \in {"OpInsert", "OpDelete", "OpUpdate"} |->
        CASE op = "OpInsert" -> PrivInsert
          [] op = "OpDelete" -> PrivDelete
          [] op = "OpUpdate" -> PrivUpdate]

\* a check that any privilege at all satisfies
CanExecute_AnyPrivilege(p, operation) ==
    IF operation \notin DOMAIN operationPrivilegeMap
    THEN TRUE
    ELSE p # {}

CanExecute(p, operation) ==
    IF operation \notin DOMAIN operationPrivilegeMap
    THEN TRUE
    ELSE operationPrivilegeMap[operation] \in p

\* ------------------------------------------------------------------------
\* Errors.  typ is the dynamic type of the innermost typed error that is
\* still reachable through Unwrap; wraps counts the %w wrappers around it.
\* fmt.Errorf with %s flattens the error into an opaque one.
\* ------------------------------------------------------------------------
NoErr == [typ |-> "nil", wraps |-> 0, before |-> 0, after |-> 0]
OpaqueErr == [typ |-> "error", wraps |-> 0, before |-> 0, after |-> 0]
ErrTxClosed == [typ |-> "ErrTxClosed", wraps |-> 0, before |-> 0, after |-> 0]
ErrRowCountExceeded(b, a) ==
    [typ |-> "ErrRowCountExceeded", wraps |-> 0, before |-> b, after |-> a]

ErrorfS(err) == OpaqueErr
\* a wrapper that formats the error with %s where the code uses %w
ErrorfW_Flatten(err) == OpaqueErr
ErrorfW(err) == [err EXCEPT !.wraps = @ + 1]

\* ------------------------------------------------------------------------
\* The store: registry rows, system_acl rows and the user relations with
\* their row counts (-1: the relation does not exist).
\* ------------------------------------------------------------------------
NoRegRow == [has |-> FALSE, controller |-> "", name |-> "",
             structure |-> "", description |-> ""]
\* the privileges column (text[]) of a system_acl row: how often each
\* abbreviation stands in the array
Count(list, p) == Cardinality({i \in DOMAIN list : list[i] = p})
PrivilegesArray(list) == [p \in Privs |-> Count(list, p)]
HeldPrivs(row) == {p \in Privs : row.privs[p] > 0}

NoAclRow == [has |-> FALSE, privs |-> PrivilegesArray(<<>>)]
NoRel == -1

InitStore ==
    [reg |-> [id \in TableIDs |->
                IF id = 1
                THEN [has |-> TRUE, controller |-> "owner", name |-> "foo",
                      structure |-> "h1", description |-> "d"]
                ELSE NoRegRow],
     acl |-> [k \in TableIDs \X Addrs |->
                IF k = <<1, "owner">>
                THEN [has |-> TRUE,
                      privs |-> PrivilegesArray(<<PrivInsert, PrivUpdate, PrivDelete>>)]
                ELSE NoAclRow],
     rel |-> [r \in RelNames |-> IF r = <<"_", 1>> THEN 0 ELSE NoRel]]


\* ------------------------------------------------------------------------
\* Inputs: validated statements (parsing.SugaredMutatingStmt).  All the
\* statements of one ExecWriteQueries call carry the same table id.
\* ------------------------------------------------------------------------
WriteStmt(op, rows, fails, prefix) ==
    [kind |-> "write", op |-> op, rows |-> rows, fails |-> fails,
     prefix |-> prefix, roles |-> {}, privs |-> <<>>]
GrantStmt(op, roles, privs) ==
    [kind |-> "grant", op |-> op, rows |-> 0, fails |-> FALSE,
     prefix |-> "", roles |-> roles, privs |-> privs]

StmtShapes ==
    {WriteStmt("OpInsert", r, FALSE, "") : r \in 1..MaxInsert}
    \cup {WriteStmt("OpInsert", 1, FALSE, "bar"),
          WriteStmt("OpInsert", 1, TRUE, ""),
          WriteStmt("OpDelete", 1, FALSE, "foo"),
          WriteStmt("OpUpdate", 1, FALSE, ""),
          GrantStmt("OpGrant", {"other"}, <<PrivInsert>>),
          GrantStmt("OpRevoke", {"other"}, <<PrivInsert>>)}

SeqsUpTo(S, n) == UNION {[1..k -> S] : k \in 0..n}
StmtSeqs == SeqsUpTo(StmtShapes, MaxStmts)

\* fails: the store refuses the CREATE the statement is bound to
CreateStmts ==
    {[namePrefix |-> "bar", structureHash |-> "h2", fails |-> f] :
        f \in BOOLEAN}

\* ------------------------------------------------------------------------
\* ACL collaborator (tableland.ACL), as the processor calls it.
\* CheckPrivileges is handed the savepoint tx; IsOwner is handed no tx and
\* reads through the pool, that is the committed store.
\* ------------------------------------------------------------------------
CheckPrivileges(tx, controller, id, op) ==
    IF CanExecute(HeldPrivs(tx.acl[<<id, controller>>]), op)
    THEN NoErr ELSE OpaqueErr

IsOwner(db, controller, id) ==
    db.reg[id].has /\ db.reg[id].controller = controller

\* ------------------------------------------------------------------------
\* pkg/txn/impl/processor.go: the statements run inside a savepoint
\* ------------------------------------------------------------------------
\* createStmt.GetRawQueryForTableID: the relation the CREATE is bound to
CreateRelName(id) == <<"t", id>>
\* GetTableNameAndRowCountByTableID: the relation whose rows are counted
CountRelName(id) == <<"_", id>>

GetTableNameAndRowCountByTableID(tx, id) ==
    IF tx.rel[CountRelName(id)] = NoRel \/ ~tx.reg[id].has
    THEN [name |-> "", rowCount |-> 0, err |-> OpaqueErr]
    ELSE [name |-> tx.reg[id].name, rowCount |-> tx.rel[CountRelName(id)],
          err |-> NoErr]

\* tx.Exec of the desugared query of a write statement: the command tag
ExecWrite(tx, id, ws) ==
    LET cur == tx.rel[CountRelName(id)] IN
    IF ws.fails THEN [tx |-> tx, err |-> OpaqueErr, rowsAffected |-> 0]
    ELSE IF ws.op = "OpInsert"
    THEN [tx |-> [tx EXCEPT !.rel[CountRelName(id)] = cur + ws.rows],
          err |-> NoErr, rowsAffected |-> ws.rows]
    ELSE IF ws.op = "OpDelete"
    THEN LET n == IF cur < ws.rows THEN cur ELSE ws.rows IN
         [tx |-> [tx EXCEPT !.rel[CountRelName(id)] = cur - n],
          err |-> NoErr, rowsAffected |-> n]
    ELSE [tx |-> tx, err |-> NoErr,
          rowsAffected |-> IF cur < ws.rows THEN cur ELSE ws.rows]

\* a cap check that lets one row too many through
RowCapCheck_OffByOne(maxRows, ws, beforeRowCount, rowsAffected) ==
    IF maxRows > 0 /\ ws.op = "OpInsert"
       /\ beforeRowCount + rowsAffected > maxRows + 1
    THEN ErrRowCountExceeded(beforeRowCount, beforeRowCount + rowsAffected)
    ELSE NoErr

RowCapCheck(maxRows, ws, beforeRowCount, rowsAffected) ==
    IF maxRows > 0 /\ ws.op = "OpInsert"
       /\ beforeRowCount + rowsAffected > maxRows
    THEN ErrRowCountExceeded(beforeRowCount, beforeRowCount + rowsAffected)
    ELSE NoErr

\* executed: the SQL of the statement has been run by the store
executeWriteStmt(tx, maxRows, id, ws, controller, beforeRowCount) ==
    IF CheckPrivileges(tx, controller, id, ws.op) # NoErr
    THEN [tx |-> tx, err |-> ErrorfS(OpaqueErr), executed |-> FALSE]
    ELSE LET r == ExecWrite(tx, id, ws) IN
         IF r.err # NoErr
         THEN [tx |-> tx, err |-> ErrorfS(r.err), executed |-> FALSE]
         ELSE [tx |-> r.tx,
               err |-> RowCapCheck(maxRows, ws, beforeRowCount, r.rowsAffected),
               executed |-> TRUE]

\* INSERT ... ON CONFLICT DO UPDATE: a new row holds the array it is given,
\* a row in conflict the distinct elements of its array and the given one
GrantRole(row, privs) ==
    IF row.has
    THEN [row EXCEPT !.privs =
            [p \in Privs |-> IF @[p] > 0 \/ Count(privs, p) > 0 THEN 1 ELSE 0]]
    ELSE [has |-> TRUE, privs |-> PrivilegesArray(privs)]

\* array_remove of every listed privilege; no row, no update
RevokeRole(row, privs) ==
    IF row.has
    THEN [row EXCEPT !.privs =
            [p \in Privs |-> IF Count(privs, p) > 0 THEN 0 ELSE @[p]]]
    ELSE row

\* a grant that writes its rows and looks at the owner afterwards
executeGrantStmt_CheckLast(tx, db, id, gs, controller) ==
    [tx |-> [tx EXCEPT !.acl =
                [k \in DOMAIN tx.acl |->
                   IF k[1] = id /\ k[2] \in gs.roles
                   THEN IF gs.op = "OpGrant"
                        THEN GrantRole(tx.acl[k], gs.privs)
                        ELSE RevokeRole(tx.acl[k], gs.privs)
                   ELSE tx.acl[k]]],
     err |-> IF IsOwner(db, controller, id) THEN NoErr ELSE OpaqueErr]

executeGrantStmt(tx, db, id, gs, controller) ==
    IF ~IsOwner(db, controller, id)
    THEN [tx |-> tx, err |-> OpaqueErr]
    ELSE [tx |-> [tx EXCEPT !.acl =
                    [k \in DOMAIN tx.acl |->
                       IF k[1] = id /\ k[2] \in gs.roles
                       THEN IF gs.op = "OpGrant"
                            THEN GrantRole(tx.acl[k], gs.privs)
                            ELSE RevokeRole(tx.acl[k], gs.privs)
                       ELSE tx.acl[k]]],
          err |-> NoErr]

\* the loop of ExecWriteQueries from statement i on; executed is the set of
\* the statements (their indices) whose SQL has been run by the store
RECURSIVE RunStmts(_, _, _, _, _, _, _, _, _, _)
RunStmts(tx, db, maxRows, id, mqueries, i, controller, dbName, beforeRowCount, executed) ==
    IF i > Len(mqueries)
    THEN [tx |-> tx, err |-> NoErr, executed |-> executed]
    ELSE LET mq == mqueries[i] IN
         IF mq.prefix # "" /\ dbName # mq.prefix
         THEN [tx |-> tx, err |-> OpaqueErr, executed |-> executed]
         ELSE IF mq.kind = "grant"
         THEN LET g == executeGrantStmt(tx, db, id, mq, controller) IN
              IF g.err # NoErr
              THEN [tx |-> tx, err |-> ErrorfS(g.err), executed |-> executed]
              ELSE RunStmts(g.tx, db, maxRows, id, mqueries, i + 1,
                            controller, dbName, beforeRowCount,
                            executed \cup {i})
         ELSE LET w == executeWriteStmt(tx, maxRows, id, mq, controller,
                                        beforeRowCount)
                  n == IF w.executed THEN executed \cup {i} ELSE executed IN
              IF w.err.typ = "ErrRowCountExceeded"
              THEN [tx |-> w.tx, err |-> w.err, executed |-> n]
              ELSE IF w.err # NoErr
              THEN [tx |-> w.tx, err |-> ErrorfS(w.err), executed |-> n]
              ELSE RunStmts(w.tx, db, maxRows, id, mqueries, i + 1,
                            controller, dbName, beforeRowCount, n)

\* the closure f of ExecWriteQueries
ExecWriteQueriesFunc(tx, db, maxRows, id, controller, mqueries) ==
    IF Len(mqueries) = 0
    THEN [tx |-> tx, err |-> NoErr, executed |-> {}]
    ELSE LET l == GetTableNameAndRowCountByTableID(tx, id) IN
         IF l.err # NoErr
         THEN [tx |-> tx, err |-> ErrorfS(l.err), executed |-> {}]
         ELSE RunStmts(tx, db, maxRows, id, mqueries, 1, controller,
                       l.name, l.rowCount, {})

\* the three statements of the closure f of InsertTable, each on the state
\* the one before has left
InsertRegistryRow(tx, id, controller, description, createStmt) ==
    [tx EXCEPT !.reg[id] =
        [has |-> TRUE, controller |-> controller,
         name |-> createStmt.namePrefix,
         structure |-> createStmt.structureHash,
         description |-> description]]

\* an owner row that lacks the delete privilege
InsertAclRow_NoDelete(tx, id, controller) ==
    [tx EXCEPT !.acl[<<id, controller>>] =
        [has |-> TRUE, privs |-> PrivilegesArray(<<PrivInsert, PrivUpdate>>)]]

InsertAclRow(tx, id, controller) ==
    [tx EXCEPT !.acl[<<id, controller>>] =
        [has |-> TRUE,
         privs |-> PrivilegesArray(<<PrivInsert, PrivUpdate, PrivDelete>>)]]

CreateRelation(tx, id) == [tx EXCEPT !.rel[CreateRelName(id)] = 0]

\* the closure f of InsertTable: a statement that fails leaves what the
\* statements before it have written to the savepoint
InsertTableFunc(tx, id, controller, description, createStmt) ==
    IF tx.reg[id].has
    THEN [tx |-> tx, err |-> OpaqueErr]
    ELSE LET t1 == InsertRegistryRow(tx, id, controller, description,
                                     createStmt) IN
         IF t1.acl[<<id, controller>>].has
         THEN [tx |-> t1, err |-> OpaqueErr]
         ELSE LET t2 == InsertAclRow(t1, id, controller) IN
              IF createStmt.fails \/ t2.rel[CreateRelName(id)] # NoRel
              THEN [tx |-> t2, err |-> OpaqueErr]
              ELSE [tx |-> CreateRelation(t2, id), err |-> NoErr]

\* a BeginFunc that keeps what a failing closure has written
BeginFunc_NoRollback(txn, view, r) ==
    IF txn # "open" THEN [view |-> view, err |-> ErrTxClosed]
    ELSE [view |-> r.tx, err |-> r.err]

\* pgx.Tx.BeginFunc on the batch's transaction: a closed transaction gives
\* ErrTxClosed, a failing closure rolls the savepoint back
BeginFunc(txn, view, r) ==
    IF txn # "open" THEN [view |-> view, err |-> ErrTxClosed]
    ELSE IF r.err # NoErr THEN [view |-> view, err |-> r.err]
    ELSE [view |-> r.tx, err |-> NoErr]


\* ------------------------------------------------------------------------
\* The query validator (pkg/parsing/impl).  A string is the sequence of its
\* pieces, so that a prefix test and a concatenation are what they are on
\* strings; a parsed query (pg_query.ParseResult) is the sequence of its
\* statement nodes.
\* ------------------------------------------------------------------------
MaxDepth == 2
MaxPayload == 3
MaxElts == 3
MaxCalls == 3

HasPrefix(s, prefix) ==
    Len(prefix) <= Len(s) /\ SubSeq(s, 1, Len(prefix)) = prefix

\* postgresparser.New("system_")
systemTablePrefix == <<"system_">>

Foo == <<"foo">>
Bar == <<"bar">>
Registry == <<"registry">>
SystemAcl == <<"system_", "acl">>
SystemTables == <<"system_", "tables">>
SystemRelnames == {Registry, SystemAcl, SystemTables}
Relnames == {Foo, Bar} \cup SystemRelnames

\* ---- pg_query nodes ----------------------------------------------------
Nil == [kind |-> "nil"]
A_Const == [kind |-> "A_Const"]
ColumnRef == [kind |-> "ColumnRef"]
SQLValueFunction == [kind |-> "SQLValueFunction"]
RangeVar(relname) == [kind |-> "RangeVar", relname |-> relname]
ResTarget(val) == [kind |-> "ResTarget", val |-> val]
List(items) == [kind |-> "List", items |-> items]
AExpr(lexpr, rexpr) == [kind |-> "AExpr", lexpr |-> lexpr, rexpr |-> rexpr]
BoolExpr(args) == [kind |-> "BoolExpr", args |-> args]
FuncCall(args) == [kind |-> "FuncCall", args |-> args]
SubLink(subselect) == [kind |-> "SubLink", subselect |-> subselect]
JoinExpr(larg, rarg) == [kind |-> "JoinExpr", larg |-> larg, rarg |-> rarg]
RangeSubselect(subquery) == [kind |-> "RangeSubselect", subquery |-> subquery]
SelectStmt(targetList, fromClause, whereClause, valuesLists, lockingClause) ==
    [kind |-> "SelectStmt", targetList |-> targetList,
     fromClause |-> fromClause, whereClause |-> whereClause,
     valuesLists |-> valuesLists, lockingClause |-> lockingClause]
InsertStmt(relname, selectStmt, returningList) ==
    [kind |-> "InsertStmt", relation |-> RangeVar(relname),
     selectStmt |-> selectStmt, returningList |-> returningList]
UpdateStmt(relname, targetList, fromClause, whereClause, returningList) ==
    [kind |-> "UpdateStmt", relation |-> RangeVar(relname),
     targetList |-> targetList, fromClause |-> fromClause,
     whereClause |-> whereClause, returningList |-> returningList]
DeleteStmt(relname, usingClause, whereClause, returningList) ==
    [kind |-> "DeleteStmt", relation |-> RangeVar(relname),
     usingClause |-> usingClause, whereClause |-> whereClause,
     returningList |-> returningList]
Constraint(contype) == [kind |-> "Constraint", contype |-> contype]
ColumnDef(colname, names, constraints) ==
    [kind |-> "ColumnDef", colname |-> colname, names |-> names,
     constraints |-> constraints]
CreateStmt(relname, tableElts) ==
    [kind |-> "CreateStmt", relation |-> RangeVar(relname),
     tableElts |-> tableElts]

\* the nodes directly under a node, whatever its kind
Children(n) ==
    CASE n.kind = "ResTarget" -> <<n.val>>
      [] n.kind = "List" -> n.items
      [] n.kind = "AExpr" -> <<n.lexpr, n.rexpr>>
      [] n.kind = "BoolExpr" -> n.args
      [] n.kind = "FuncCall" -> n.args
      [] n.kind = "SubLink" -> <<n.subselect>>
      [] n.kind = "JoinExpr" -> <<n.larg, n.rarg>>
      [] n.kind = "RangeSubselect" -> <<n.subquery>>
      [] n.kind = "SelectStmt" ->
            n.targetList \o n.fromClause \o <<n.whereClause>> \o n.valuesLists
      [] n.kind = "InsertStmt" ->
            <<n.relation, n.selectStmt>> \o n.returningList
      [] n.kind = "UpdateStmt" ->
            <<n.relation>> \o n.targetList \o n.fromClause
                \o <<n.whereClause>> \o n.returningList
      [] n.kind = "DeleteStmt" ->
            <<n.relation>> \o n.usingClause \o <<n.whereClause>>
                \o n.returningList
      [] n.kind = "CreateStmt" -> <<n.relation>> \o n.tableElts
      [] n.kind = "ColumnDef" -> n.constraints
      [] OTHER -> <<>>

\* ---- pg_query.Deparse: the SQL text of a node, piece by piece -----------
\* strings.Join
RECURSIVE Join(_, _)
Join(strs, sep) ==
    IF strs = <<>> THEN <<>>
    ELSE IF Len(strs) = 1 THEN strs[1]
    ELSE strs[1] \o sep \o Join(Tail(strs), sep)

Clause(keyword, text) == IF text = <<>> THEN <<>> ELSE keyword \o text

\* a relation name that is written with the schema in front of it
DeparseRangeVar_SchemaQualified(n) == <<"public", ".">> \o n.relname

DeparseRangeVar(n) == n.relname

RECURSIVE Deparse(_)
DeparseAll(nodes, sep) == Join([i \in DOMAIN nodes |-> Deparse(nodes[i])], sep)
\* an operand is put in parentheses when its kind binds less tightly than
\* the operator around it
DeparseOperand(n, kinds) ==
    IF n.kind \in kinds THEN <<"(">> \o Deparse(n) \o <<")">> ELSE Deparse(n)
Deparse(n) ==
    CASE n.kind = "nil" -> <<>>
      [] n.kind = "A_Const" -> <<"1">>
      [] n.kind = "ColumnRef" -> <<"c">>
      [] n.kind = "SQLValueFunction" -> <<"current_timestamp">>
      [] n.kind = "RangeVar" -> DeparseRangeVar(n)
      [] n.kind = "ResTarget" -> Deparse(n.val)
      [] n.kind = "List" -> <<"(">> \o DeparseAll(n.items, <<",">>) \o <<")">>
      [] n.kind = "AExpr" ->
            DeparseOperand(n.lexpr, {"AExpr", "BoolExpr"}) \o <<"=">>
            \o DeparseOperand(n.rexpr, {"AExpr", "BoolExpr"})
      [] n.kind = "BoolExpr" ->
            Join([i \in DOMAIN n.args |->
                    DeparseOperand(n.args[i], {"BoolExpr"})], <<"AND">>)
      [] n.kind = "FuncCall" ->
            <<"myfunc", "(">> \o DeparseAll(n.args, <<",">>) \o <<")">>
      [] n.kind = "SubLink" -> <<"(">> \o Deparse(n.subselect) \o <<")">>
      [] n.kind = "JoinExpr" ->
            Deparse(n.larg) \o <<"JOIN">> \o Deparse(n.rarg)
      [] n.kind = "RangeSubselect" ->
            <<"(">> \o Deparse(n.subquery) \o <<")">>
      [] n.kind = "SelectStmt" ->
            IF n.valuesLists # <<>>
            THEN <<"VALUES">> \o DeparseAll(n.valuesLists, <<",">>)
            ELSE <<"SELECT">> \o DeparseAll(n.targetList, <<",">>)
                 \o Clause(<<"FROM">>, DeparseAll(n.fromClause, <<",">>))
                 \o Clause(<<"WHERE">>, Deparse(n.whereClause))
                 \o (IF n.lockingClause > 0 THEN <<"FOR UPDATE">> ELSE <<>>)
      [] n.kind = "InsertStmt" ->
            <<"INSERT INTO">> \o Deparse(n.relation) \o Deparse(n.selectStmt)
            \o Clause(<<"RETURNING">>, DeparseAll(n.returningList, <<",">>))
      [] n.kind = "UpdateStmt" ->
            <<"UPDATE">> \o Deparse(n.relation) \o <<"SET">>
            \o Join([i \in DOMAIN n.targetList |->
                       <<"c", "=">> \o Deparse(n.targetList[i])], <<",">>)
            \o Clause(<<"FROM">>, DeparseAll(n.fromClause, <<",">>))
            \o Clause(<<"WHERE">>, Deparse(n.whereClause))
            \o Clause(<<"RETURNING">>, DeparseAll(n.returningList, <<",">>))
      [] n.kind = "DeleteStmt" ->
            <<"DELETE FROM">> \o Deparse(n.relation)
            \o Clause(<<"USING">>, DeparseAll(n.usingClause, <<",">>))
            \o Clause(<<"WHERE">>, Deparse(n.whereClause))
            \o Clause(<<"RETURNING">>, DeparseAll(n.returningList, <<",">>))
      [] n.kind = "Constraint" -> <<n.contype>>
      [] n.kind = "ColumnDef" ->
            n.colname \o Join(n.names, <<".">>)
            \o DeparseAll(n.constraints, <<>>)
      [] n.kind = "CreateStmt" ->
            <<"CREATE TABLE">> \o Deparse(n.relation) \o <<"(">>
            \o DeparseAll(n.tableElts, <<",">>) \o <<")">>

\* ---- the errors of pkg/parsing -------------------------------------------
ErrOfType(typ) == [NoErr EXCEPT !.typ = typ]
ErrEmptyStatement == ErrOfType("ErrEmptyStatement")
ErrNoSingleStatement == ErrOfType("ErrNoSingleStatement")
ErrNoTopLevelUpdateInsertDelete == ErrOfType("ErrNoTopLevelUpdateInsertDelete")
ErrNoTopLevelCreate == ErrOfType("ErrNoTopLevelCreate")
ErrNoForUpdateOrShare == ErrOfType("ErrNoForUpdateOrShare")
ErrReturningClause == ErrOfType("ErrReturningClause")
ErrSystemTableReferencing == ErrOfType("ErrSystemTableReferencing")
ErrNonDeterministicFunction == ErrOfType("ErrNonDeterministicFunction")
ErrJoinOrSubquery == ErrOfType("ErrJoinOrSubquery")
\* an error that names the two tables the other way round
ErrMultiTableReference_Swapped(ref1, ref2) ==
    [typ |-> "ErrMultiTableReference", wraps |-> 0, ref1 |-> ref2, ref2 |-> ref1]

ErrMultiTableReference(ref1, ref2) ==
    [typ |-> "ErrMultiTableReference", wraps |-> 0, ref1 |-> ref1, ref2 |-> ref2]
ErrInvalidColumnType(columnType) ==
    [typ |-> "ErrInvalidColumnType", wraps |-> 0, columnType |-> columnType]

\* if err != nil { return fmt.Errorf("...: %w", err) }
Wrapped(err) == IF err = NoErr THEN NoErr ELSE ErrorfW(err)

\* a loop that returns at the first error
FirstError(errs) ==
    LET bad == {i \in DOMAIN errs : errs[i] # NoErr} IN
    IF bad = {} THEN NoErr
    ELSE errs[CHOOSE i \in bad : \A j \in bad : i <= j]

\* ---- the checks of one statement ------------------------------------------
checkNonEmptyStatement(parsed) ==
    IF Len(parsed) = 0 THEN ErrEmptyStatement ELSE NoErr

checkSingleStatement(parsed) ==
    IF Len(parsed) # 1 THEN ErrNoSingleStatement ELSE NoErr

checkTopLevelUpdateInsertDelete(node) ==
    IF node.kind \notin {"UpdateStmt", "InsertStmt", "DeleteStmt"}
    THEN ErrNoTopLevelUpdateInsertDelete ELSE NoErr

checkTopLevelCreate(node) ==
    IF node.kind # "CreateStmt" THEN ErrNoTopLevelCreate ELSE NoErr

checkNoForUpdateOrShare(node) ==
    IF node.lockingClause > 0 THEN ErrNoForUpdateOrShare ELSE NoErr

checkNoReturningClause(node) ==
    IF node.kind \in {"UpdateStmt", "InsertStmt", "DeleteStmt"}
    THEN IF Len(node.returningList) > 0 THEN ErrReturningClause ELSE NoErr
    ELSE OpaqueErr

RECURSIVE checkNoSystemTablesReferencing(_, _)
checkNoSystemTablesReferencing(node, prefix) ==
    CASE node.kind = "RangeVar" ->
            IF HasPrefix(node.relname, prefix)
            THEN ErrSystemTableReferencing ELSE NoErr
      [] node.kind = "InsertStmt" ->
            IF HasPrefix(node.relation.relname, prefix)
            THEN ErrSystemTableReferencing
            ELSE checkNoSystemTablesReferencing(node.selectStmt, prefix)
      [] node.kind = "SelectStmt" ->
            FirstError([i \in DOMAIN node.fromClause |->
                Wrapped(checkNoSystemTablesReferencing(node.fromClause[i], prefix))])
      [] node.kind = "UpdateStmt" ->
            IF HasPrefix(node.relation.relname, prefix)
            THEN ErrSystemTableReferencing
            ELSE FirstError([i \in DOMAIN node.fromClause |->
                Wrapped(checkNoSystemTablesReferencing(node.fromClause[i], prefix))])
      [] node.kind = "DeleteStmt" ->
            IF HasPrefix(node.relation.relname, prefix)
            THEN ErrSystemTableReferencing
            ELSE Wrapped(checkNoSystemTablesReferencing(node.whereClause, prefix))
      [] node.kind = "RangeSubselect" ->
            Wrapped(checkNoSystemTablesReferencing(node.subquery, prefix))
      [] node.kind = "JoinExpr" ->
            FirstError(<<Wrapped(checkNoSystemTablesReferencing(node.larg, prefix)),
                         Wrapped(checkNoSystemTablesReferencing(node.rarg, prefix))>>)
      [] OTHER -> NoErr

getReferencedTable(node) ==
    IF node.kind \in {"InsertStmt", "UpdateStmt", "DeleteStmt"}
    THEN [table |-> node.relation.relname, err |-> NoErr]
    ELSE [table |-> <<>>, err |-> OpaqueErr]

RECURSIVE checkNonDeterministicFunctions(_)
checkNonDeterministicFunctions(node) ==
    CASE node.kind = "SQLValueFunction" -> ErrNonDeterministicFunction
      [] node.kind = "List" ->
            FirstError([i \in DOMAIN node.items |->
                Wrapped(checkNonDeterministicFunctions(node.items[i]))])
      [] node.kind = "InsertStmt" ->
            checkNonDeterministicFunctions(node.selectStmt)
      [] node.kind = "SelectStmt" ->
            FirstError(
                [i \in DOMAIN node.valuesLists |->
                    Wrapped(checkNonDeterministicFunctions(node.valuesLists[i]))]
                \o [i \in DOMAIN node.fromClause |->
                    Wrapped(checkNonDeterministicFunctions(node.fromClause[i]))])
      [] node.kind = "UpdateStmt" ->
            FirstError(
                [i \in DOMAIN node.targetList |->
                    Wrapped(checkNonDeterministicFunctions(node.targetList[i]))]
                \o [i \in DOMAIN node.fromClause |->
                    Wrapped(checkNonDeterministicFunctions(node.fromClause[i]))]
                \o <<Wrapped(checkNonDeterministicFunctions(node.whereClause))>>)
      [] node.kind = "DeleteStmt" ->
            Wrapped(checkNonDeterministicFunctions(node.whereClause))
      [] node.kind = "RangeSubselect" ->
            Wrapped(checkNonDeterministicFunctions(node.subquery))
      [] node.kind = "JoinExpr" ->
            FirstError(<<Wrapped(checkNonDeterministicFunctions(node.larg)),
                         Wrapped(checkNonDeterministicFunctions(node.rarg))>>)
      [] node.kind = "AExpr" ->
            FirstError(<<Wrapped(checkNonDeterministicFunctions(node.lexpr)),
                         Wrapped(checkNonDeterministicFunctions(node.rexpr))>>)
      [] node.kind = "ResTarget" ->
            Wrapped(checkNonDeterministicFunctions(node.val))
      [] OTHER -> NoErr

RECURSIVE checkNoJoinOrSubquery(_)
checkNoJoinOrSubquery(node) ==
    CASE node.kind = "ResTarget" -> Wrapped(checkNoJoinOrSubquery(node.val))
      [] node.kind = "SelectStmt" ->
            IF Len(node.valuesLists) = 0 THEN ErrJoinOrSubquery ELSE NoErr
      [] node.kind = "RangeSubselect" -> ErrJoinOrSubquery
      [] node.kind = "JoinExpr" -> ErrJoinOrSubquery
      [] node.kind = "InsertStmt" ->
            Wrapped(checkNoJoinOrSubquery(node.selectStmt))
      [] node.kind = "UpdateStmt" ->
            IF Len(node.fromClause) # 0 THEN ErrJoinOrSubquery
            ELSE Wrapped(checkNoJoinOrSubquery(node.whereClause))
      [] node.kind = "DeleteStmt" ->
            Wrapped(checkNoJoinOrSubquery(node.whereClause))
      [] node.kind = "AExpr" ->
            FirstError(<<Wrapped(checkNoJoinOrSubquery(node.lexpr)),
                         Wrapped(checkNoJoinOrSubquery(node.rexpr))>>)
      [] node.kind = "SubLink" -> ErrJoinOrSubquery
      [] node.kind = "BoolExpr" ->
            FirstError([i \in DOMAIN node.args |->
                Wrapped(checkNoJoinOrSubquery(node.args[i]))])
      [] OTHER -> NoErr

validateReadQuery(node) ==
    FirstError(
        <<Wrapped(checkNoJoinOrSubquery(node.whereClause))>>
        \o [i \in DOMAIN node.targetList |->
              Wrapped(checkNoJoinOrSubquery(node.targetList[i]))]
        \o [i \in DOMAIN node.fromClause |->
              Wrapped(checkNoJoinOrSubquery(node.fromClause[i]))]
        \o <<Wrapped(checkNoForUpdateOrShare(node))>>)

validateWriteQuery(stmt, prefix) ==
    LET err == FirstError(<<Wrapped(checkTopLevelUpdateInsertDelete(stmt)),
                            Wrapped(checkNoJoinOrSubquery(stmt)),
                            Wrapped(checkNoReturningClause(stmt)),
                            Wrapped(checkNoSystemTablesReferencing(stmt, prefix)),
                            Wrapped(checkNonDeterministicFunctions(stmt))>>) IN
    IF err # NoErr THEN [table |-> <<>>, err |-> err]
    ELSE getReferencedTable(stmt)

\* ---- QueryValidator.ValidateRunSQL ----------------------------------------
ReadQuery == "ReadQuery"
WriteQuery == "WriteQuery"
UndefinedQuery == "UndefinedQuery"

\* the loop over parsed.Stmts from statement i on
RECURSIVE WriteLoop(_, _, _, _, _)
WriteLoop(parsed, prefix, i, targetTable, writeStmts) ==
    IF i > Len(parsed)
    THEN [queryType |-> WriteQuery, writeStmts |-> writeStmts, err |-> NoErr]
    ELSE LET v == validateWriteQuery(parsed[i], prefix) IN
         IF v.err # NoErr
         THEN [queryType |-> UndefinedQuery, writeStmts |-> <<>>,
               err |-> Wrapped(v.err)]
         ELSE LET target == IF targetTable = <<>> THEN v.table
                            ELSE targetTable IN
              IF target # v.table
              THEN [queryType |-> UndefinedQuery, writeStmts |-> <<>>,
                    err |-> ErrMultiTableReference(target, v.table)]
              ELSE WriteLoop(parsed, prefix, i + 1, target,
                             Append(writeStmts,
                                    [rawQuery |-> Deparse(parsed[i]),
                                     tableName |-> target]))

ValidateRunSQL(parsed, prefix) ==
    IF checkNonEmptyStatement(parsed) # NoErr
    THEN [queryType |-> UndefinedQuery, writeStmts |-> <<>>,
          err |-> Wrapped(checkNonEmptyStatement(parsed))]
    ELSE IF parsed[1].kind = "SelectStmt"
    THEN LET err == FirstError(<<Wrapped(checkSingleStatement(parsed)),
                                 Wrapped(validateReadQuery(parsed[1]))>>) IN
         [queryType |-> IF err = NoErr THEN ReadQuery ELSE UndefinedQuery,
          writeStmts |-> <<>>, err |-> err]
    ELSE WriteLoop(parsed, prefix, 1, <<>>, <<>>)

\* ---- pg_query.Parse: the statements of an SQL text ------------------------
\* the keywords and punctuation marks; any other piece belongs to a name
Reserved == {"SELECT", "VALUES", "FROM", "WHERE", "FOR UPDATE", "JOIN", "INSERT INTO", "UPDATE", "SET", "DELETE FROM", "USING", "RETURNING", "AND", "=", ",", "(", ")"}

\* the outcome of parsing a prefix of the text: the node (or the nodes of a
\* list) and the text that follows it
Parsed(node, rest) == [ok |-> TRUE, node |-> node, rest |-> rest]
ParseFailed == [ok |-> FALSE, node |-> Nil, rest |-> <<>>]
Peek(ts) == IF ts = <<>> THEN "" ELSE Head(ts)
ResTargets(nodes) == [i \in DOMAIN nodes |-> ResTarget(nodes[i])]

RECURSIVE RelnameLen(_)
RelnameLen(ts) ==
    IF ts = <<>> \/ Head(ts) \in Reserved THEN 0 ELSE 1 + RelnameLen(Tail(ts))

ParseRelname(ts) ==
    LET n == RelnameLen(ts) IN
    IF n = 0 THEN ParseFailed
    ELSE Parsed(RangeVar(SubSeq(ts, 1, n)), SubSeq(ts, n + 1, Len(ts)))

RECURSIVE ParseRule(_, _, _)

\* a constant, a column, a value function, a function call, a sublink or an
\* expression in parentheses
ParsePrimary(ts) ==
    CASE Peek(ts) = "1" -> Parsed(A_Const, Tail(ts))
      [] Peek(ts) = "c" -> Parsed(ColumnRef, Tail(ts))
      [] Peek(ts) = "current_timestamp" -> Parsed(SQLValueFunction, Tail(ts))
      [] Peek(ts) = "myfunc" ->
            IF Peek(Tail(ts)) # "(" THEN ParseFailed
            ELSE LET a == ParseRule("ExprList", Nil, Tail(Tail(ts))) IN
                 IF a.ok /\ Peek(a.rest) = ")"
                 THEN Parsed(FuncCall(a.node), Tail(a.rest))
                 ELSE ParseFailed
      [] Peek(ts) = "(" ->
            IF Peek(Tail(ts)) = "SELECT"
            THEN LET s == ParseRule("SelectStmt", Nil, Tail(ts)) IN
                 IF s.ok /\ Peek(s.rest) = ")"
                 THEN Parsed(SubLink(s.node), Tail(s.rest))
                 ELSE ParseFailed
            ELSE LET e == ParseRule("BoolExpr", Nil, Tail(ts)) IN
                 IF e.ok /\ Peek(e.rest) = ")"
                 THEN Parsed(e.node, Tail(e.rest))
                 ELSE ParseFailed
      [] OTHER -> ParseFailed

\* primary [= primary]
ParseAExpr(ts) ==
    LET l == ParseRule("Primary", Nil, ts) IN
    IF ~l.ok THEN ParseFailed
    ELSE IF Peek(l.rest) # "=" THEN l
    ELSE LET r == ParseRule("Primary", Nil, Tail(l.rest)) IN
         IF r.ok THEN Parsed(AExpr(l.node, r.node), r.rest) ELSE ParseFailed

\* aexpr {AND aexpr}
ParseAndArgs(ts) ==
    LET a == ParseRule("AExpr", Nil, ts) IN
    IF ~a.ok THEN ParseFailed
    ELSE IF Peek(a.rest) # "AND" THEN Parsed(<<a.node>>, a.rest)
    ELSE LET m == ParseRule("AndArgs", Nil, Tail(a.rest)) IN
         IF m.ok THEN Parsed(<<a.node>> \o m.node, m.rest) ELSE ParseFailed

ParseBoolExpr(ts) ==
    LET a == ParseRule("AndArgs", Nil, ts) IN
    IF ~a.ok THEN ParseFailed
    ELSE IF Len(a.node) = 1 THEN Parsed(a.node[1], a.rest)
    ELSE Parsed(BoolExpr(a.node), a.rest)

\* expr {, expr}
ParseExprList(ts) ==
    LET e == ParseRule("BoolExpr", Nil, ts) IN
    IF ~e.ok THEN ParseFailed
    ELSE IF Peek(e.rest) # "," THEN Parsed(<<e.node>>, e.rest)
    ELSE LET m == ParseRule("ExprList", Nil, Tail(e.rest)) IN
         IF m.ok THEN Parsed(<<e.node>> \o m.node, m.rest) ELSE ParseFailed

\* a relation or a sub-select in parentheses
ParseTableRef(ts) ==
    IF Peek(ts) # "(" THEN ParseRelname(ts)
    ELSE LET s == ParseRule("SelectStmt", Nil, Tail(ts)) IN
         IF s.ok /\ Peek(s.rest) = ")"
         THEN Parsed(RangeSubselect(s.node), Tail(s.rest))
         ELSE ParseFailed

\* {JOIN tableref} after the left arm
ParseJoined(larg, ts) ==
    IF Peek(ts) # "JOIN" THEN Parsed(larg, ts)
    ELSE LET r == ParseRule("TableRef", Nil, Tail(ts)) IN
         IF r.ok THEN ParseRule("Joined", JoinExpr(larg, r.node), r.rest)
         ELSE ParseFailed

\* fromitem {, fromitem}
ParseFromList(ts) ==
    LET l == ParseRule("TableRef", Nil, ts)
        f == IF l.ok THEN ParseRule("Joined", l.node, l.rest) ELSE ParseFailed IN
    IF ~f.ok THEN ParseFailed
    ELSE IF Peek(f.rest) # "," THEN Parsed(<<f.node>>, f.rest)
    ELSE LET m == ParseRule("FromList", Nil, Tail(f.rest)) IN
         IF m.ok THEN Parsed(<<f.node>> \o m.node, m.rest) ELSE ParseFailed

\* (exprs) {, (exprs)}
ParseValuesLists(ts) ==
    IF Peek(ts) # "(" THEN ParseFailed
    ELSE LET l == ParseRule("ExprList", Nil, Tail(ts)) IN
         IF ~(l.ok /\ Peek(l.rest) = ")") THEN ParseFailed
         ELSE IF Peek(Tail(l.rest)) # ","
         THEN Parsed(<<List(l.node)>>, Tail(l.rest))
         ELSE LET m == ParseRule("ValuesLists", Nil, Tail(Tail(l.rest))) IN
              IF m.ok THEN Parsed(<<List(l.node)>> \o m.node, m.rest)
              ELSE ParseFailed

\* the clause a keyword introduces, when the keyword is there
AfterKeyword(prev, keyword, clause, absent) ==
    IF ~prev.ok THEN ParseFailed
    ELSE IF Peek(prev.rest) = keyword THEN clause
    ELSE Parsed(absent, prev.rest)

ParseSelectStmt(ts) ==
    IF Peek(ts) = "VALUES"
    THEN LET v == ParseRule("ValuesLists", Nil, Tail(ts)) IN
         IF v.ok THEN Parsed(SelectStmt(<<>>, <<>>, Nil, v.node, 0), v.rest)
         ELSE ParseFailed
    ELSE IF Peek(ts) # "SELECT" THEN ParseFailed
    ELSE LET t == ParseRule("ExprList", Nil, Tail(ts))
             f == AfterKeyword(t, "FROM", ParseRule("FromList", Nil, Tail(t.rest)), <<>>)
             w == AfterKeyword(f, "WHERE", ParseRule("BoolExpr", Nil, Tail(f.rest)), Nil)
             l == AfterKeyword(w, "FOR UPDATE", Parsed(1, Tail(w.rest)), 0) IN
         IF l.ok
         THEN Parsed(SelectStmt(ResTargets(t.node), f.node, w.node, <<>>, l.node),
                     l.rest)
         ELSE ParseFailed

ParseInsertStmt(ts) ==
    LET r == ParseRelname(Tail(ts))
        s == IF r.ok /\ Peek(r.rest) \in {"VALUES", "SELECT"}
             THEN ParseRule("SelectStmt", Nil, r.rest)
             ELSE ParseFailed
        ret == AfterKeyword(s, "RETURNING", ParseRule("ExprList", Nil, Tail(s.rest)), <<>>) IN
    IF ret.ok
    THEN Parsed(InsertStmt(r.node.relname, s.node, ResTargets(ret.node)), ret.rest)
    ELSE ParseFailed

\* c = expr {, c = expr}
ParseSetList(ts) ==
    IF ~(Peek(ts) = "c" /\ Peek(Tail(ts)) = "=") THEN ParseFailed
    ELSE LET e == ParseRule("BoolExpr", Nil, Tail(Tail(ts))) IN
         IF ~e.ok THEN ParseFailed
         ELSE IF Peek(e.rest) # "," THEN Parsed(<<e.node>>, e.rest)
         ELSE LET m == ParseRule("SetList", Nil, Tail(e.rest)) IN
              IF m.ok THEN Parsed(<<e.node>> \o m.node, m.rest) ELSE ParseFailed

ParseUpdateStmt(ts) ==
    LET r == ParseRelname(Tail(ts))
        t == AfterKeyword(r, "SET", ParseRule("SetList", Nil, Tail(r.rest)), <<>>)
        f == AfterKeyword(t, "FROM", ParseRule("FromList", Nil, Tail(t.rest)), <<>>)
        w == AfterKeyword(f, "WHERE", ParseRule("BoolExpr", Nil, Tail(f.rest)), Nil)
        ret == AfterKeyword(w, "RETURNING", ParseRule("ExprList", Nil, Tail(w.rest)), <<>>) IN
    IF ret.ok /\ t.node # <<>>
    THEN Parsed(UpdateStmt(r.node.relname, ResTargets(t.node), f.node, w.node,
                           ResTargets(ret.node)), ret.rest)
    ELSE ParseFailed

ParseDeleteStmt(ts) ==
    LET r == ParseRelname(Tail(ts))
        u == AfterKeyword(r, "USING", ParseRule("FromList", Nil, Tail(r.rest)), <<>>)
        w == AfterKeyword(u, "WHERE", ParseRule("BoolExpr", Nil, Tail(u.rest)), Nil)
        ret == AfterKeyword(w, "RETURNING", ParseRule("ExprList", Nil, Tail(w.rest)), <<>>) IN
    IF ret.ok
    THEN Parsed(DeleteStmt(r.node.relname, u.node, w.node, ResTargets(ret.node)),
                ret.rest)
    ELSE ParseFailed

\* one statement of the kinds ValidateRunSQL deparses
ParseStmt(ts) ==
    CASE Peek(ts) = "INSERT INTO" -> ParseRule("InsertStmt", Nil, ts)
      [] Peek(ts) = "UPDATE" -> ParseRule("UpdateStmt", Nil, ts)
      [] Peek(ts) = "DELETE FROM" -> ParseRule("DeleteStmt", Nil, ts)
      [] Peek(ts) \in {"SELECT", "VALUES"} -> ParseRule("SelectStmt", Nil, ts)
      [] OTHER -> ParseFailed

\* the rules of the grammar call one another through ParseRule
ParseRule(rule, larg, ts) ==
    CASE rule = "Primary" -> ParsePrimary(ts)
      [] rule = "AExpr" -> ParseAExpr(ts)
      [] rule = "AndArgs" -> ParseAndArgs(ts)
      [] rule = "BoolExpr" -> ParseBoolExpr(ts)
      [] rule = "ExprList" -> ParseExprList(ts)
      [] rule = "TableRef" -> ParseTableRef(ts)
      [] rule = "Joined" -> ParseJoined(larg, ts)
      [] rule = "FromList" -> ParseFromList(ts)
      [] rule = "ValuesLists" -> ParseValuesLists(ts)
      [] rule = "SelectStmt" -> ParseSelectStmt(ts)
      [] rule = "SetList" -> ParseSetList(ts)
      [] rule = "InsertStmt" -> ParseInsertStmt(ts)
      [] rule = "UpdateStmt" -> ParseUpdateStmt(ts)
      [] rule = "DeleteStmt" -> ParseDeleteStmt(ts)
      [] rule = "Stmt" -> ParseStmt(ts)

ErrInvalidSyntax == ErrOfType("ErrInvalidSyntax")

\* pg_query.Parse of a text that holds at most one statement
Parse(query) ==
    IF query = <<>> THEN [stmts |-> <<>>, err |-> NoErr]
    ELSE LET s == ParseRule("Stmt", Nil, query) IN
         IF s.ok /\ s.rest = <<>> THEN [stmts |-> <<s.node>>, err |-> NoErr]
         ELSE [stmts |-> <<>>, err |-> OpaqueErr]

\* ValidateRunSQL from the text of the query on
ValidateRunSQLQuery(query, prefix) ==
    LET p == Parse(query) IN
    IF p.err # NoErr
    THEN [queryType |-> UndefinedQuery, writeStmts |-> <<>>,
          err |-> ErrInvalidSyntax]
    ELSE ValidateRunSQL(p.stmts, prefix)

\* ---- QueryValidator.ValidateCreateTable -----------------------------------
PgCatalog == <<"pg_catalog">>
acceptedTypesNames == {<<"int">>, <<"bigint">>, <<"smallint">>, <<"int2">>, <<"int4">>, <<"int8">>, <<"text">>, <<"varchar">>, <<"bpchar">>, <<"date">>, <<"bool">>, <<"float4">>, <<"float8">>, <<"numeric">>, <<"timestamp">>, <<"timestamptz">>, <<"uuid">>}

\* the loop AcceptedTypesFor over the names of one column's type
RECURSIVE AcceptedTypesFor(_, _)
AcceptedTypesFor(names, accepted) ==
    IF names = <<>> THEN [typeName |-> <<>>, err |-> NoErr]
    ELSE IF Head(names) = PgCatalog THEN AcceptedTypesFor(Tail(names), accepted)
    ELSE IF Head(names) \in accepted
    THEN [typeName |-> Head(names), err |-> NoErr]
    ELSE [typeName |-> <<>>, err |-> ErrInvalidColumnType(Head(names))]

RECURSIVE checkCreateColTypes(_, _)
checkCreateColTypes(tableElts, accepted) ==
    IF tableElts = <<>> THEN [colNameTypes |-> <<>>, err |-> NoErr]
    ELSE LET col == Head(tableElts)
             rest == checkCreateColTypes(Tail(tableElts), accepted) IN
         IF col.kind = "Constraint" THEN rest
         ELSE IF col.kind # "ColumnDef"
         THEN [colNameTypes |-> <<>>, err |-> OpaqueErr]
         ELSE LET t == AcceptedTypesFor(col.names, accepted) IN
              IF t.err # NoErr THEN [colNameTypes |-> <<>>, err |-> t.err]
              ELSE IF rest.err # NoErr THEN rest
              ELSE [colNameTypes |->
                        <<[colName |-> col.colname, typeName |-> t.typeName]>>
                        \o rest.colNameTypes,
                    err |-> NoErr]

\* fmt.Sprintf("%s:%s", colName, typeName) joined with ","
stringifiedColDef(cols) ==
    Join([i \in DOMAIN cols |-> cols[i].colName \o <<":">> \o cols[i].typeName],
         <<",">>)

\* hex.EncodeToString of the SHA-256 of a string: two strings have the same
\* digest exactly when they are the same string
Sha256Hex(str) == <<"sha256">> \o str

genCreateStmt(cNode, cols) ==
    [cNode |-> cNode,
     structureHash |-> Sha256Hex(stringifiedColDef(cols)),
     namePrefix |-> cNode.relation.relname]

NoCreateStmt == [cNode |-> Nil, structureHash |-> <<>>, namePrefix |-> <<>>]

ValidateCreateTable(parsed, accepted) ==
    LET err == FirstError(<<Wrapped(checkNonEmptyStatement(parsed)),
                            Wrapped(checkSingleStatement(parsed))>>) IN
    IF err # NoErr THEN [createStmt |-> NoCreateStmt, err |-> err]
    ELSE IF checkTopLevelCreate(parsed[1]) # NoErr
    THEN [createStmt |-> NoCreateStmt,
          err |-> Wrapped(checkTopLevelCreate(parsed[1]))]
    ELSE LET c == checkCreateColTypes(parsed[1].tableElts, accepted) IN
         IF c.err # NoErr
         THEN [createStmt |-> NoCreateStmt, err |-> Wrapped(c.err)]
         ELSE [createStmt |-> genCreateStmt(parsed[1], c.colNameTypes),
               err |-> NoErr]

\* ---- createStmt.GetRawQueryForTableID --------------------------------------
HexDigit(d) == <<"0", "1", "2", "3", "4", "5", "6", "7", "8", "9", "a", "b", "c", "d", "e", "f">>[d + 1]

\* n in hexadecimal, zero padded to width digits (n < 16^width)
RECURSIVE HexDigits(_, _)
HexDigits(n, width) ==
    IF width = 0 THEN <<>>
    ELSE Append(HexDigits(n \div 16, width - 1), HexDigit(n % 16))

HexWidth == 16

\* a formatting that prints no digit of the id
SprintfTableID_NoDigits(id) == <<"0x">>

\* fmt.Sprintf("0x%016x", id)
SprintfTableID(id) == <<"0x">> \o HexDigits(id, HexWidth)

\* the statement after `Relation.Relname = "t" + ...`
BindRelname(cs, id) ==
    [cs EXCEPT !.cNode.relation.relname = <<"t">> \o SprintfTableID(id)]

GetRawQueryForTableID(cs, id) ==
    [createStmt |-> BindRelname(cs, id),
     rawQuery |-> Deparse(BindRelname(cs, id).cNode)]

\* no call of GetRawQueryForTableID in progress
NoID == 0

\* ------------------------------------------------------------------------
\* State
\* ------------------------------------------------------------------------
VARIABLES
    chBatch,          \* number of tokens in tp.chBatch (capacity 1)
    maxTableRowCount, \* tp.maxTableRowCount
    store,            \* the committed state of the database
    batch,            \* per caller: the batch it was handed last
    pc,               \* per caller: position inside the call in progress
    res,              \* per caller: result of its last call
    afterClose,       \* per caller: its last OpenBatch call began after a
                      \* successful Processor.Close
    closedOK,         \* Processor.Close has returned nil
    query,            \* the validator call its caller makes: entry point
                      \* and parsed query
    validated,        \* what that call has returned
    rawQueries,       \* the calls of GetRawQueryForTableID on the returned
                      \* CreateStmt so far: id and SQL
    revalidated,      \* what ValidateRunSQL has returned on the SQL of each
                      \* write statement of the validated payload
    argID             \* per goroutine: the id argument of the call of
                      \* GetRawQueryForTableID it is in

pvars == <<chBatch, maxTableRowCount, store, batch, pc, res, afterClose,
           closedOK>>
vvars == <<query, validated, rawQueries, revalidated, argID>>
vars == <<pvars, vvars>>

ChanCap == 1

\* txn: "none" (no batch handed out yet), "open", "committed", "rolledback"
\* view: the state seen inside the transaction; base: the committed state
\* it started from (both forgotten once the transaction is rolled back or
\* the batch closed); closes: calls of Close; returned: tokens sent by Close;
\* failed: InsertTable or ExecWriteQueries has returned an error on it
NoBatch == [txn |-> "none", view |-> InitStore, base |-> InitStore,
            closes |-> 0, returned |-> 0, failed |-> FALSE]
NewBatch(db) == [txn |-> "open", view |-> db, base |-> db,
                 closes |-> 0, returned |-> 0, failed |-> FALSE]

Result(op, err) == [op |-> op, err |-> err]
NoResult == Result("none", NoErr)

\* the validator call and its result
Call(api, parsed) == [api |-> api, parsed |-> parsed]
NoCall == Call("none", <<>>)
Validation(op, queryType, writeStmts, createStmt, err) ==
    [op |-> op, queryType |-> queryType, writeStmts |-> writeStmts,
     createStmt |-> createStmt, err |-> err]
NotValidated == Validation("none", UndefinedQuery, <<>>, NoCreateStmt, NoErr)

\* NewTxnProcessor: the token is in the channel, the cap is not negative
Init ==
    /\ chBatch = 1
    /\ maxTableRowCount \in {0, CapValue}
    /\ store = InitStore
    /\ batch = [c \in Callers |-> NoBatch]
    /\ pc = [c \in Callers |-> "idle"]
    /\ res = [c \in Callers |-> NoResult]
    /\ afterClose = [c \in Callers |-> FALSE]
    /\ closedOK = FALSE
    /\ query = NoCall
    /\ validated = NotValidated
    /\ rawQueries = <<>>
    /\ revalidated = <<>>
    /\ argID = [c \in Callers |-> NoID]

HasBatch(c) == batch[c].txn # "none"

\* ---- TblTxnProcessor.OpenBatch -----------------------------------------
\* the call: the caller arrives at `<-tp.chBatch`
OpenBatchCall(c) ==
    /\ pc[c] = "idle"
    /\ HasBatch(c) => batch[c].closes > 0
    /\ pc' = [pc EXCEPT ![c] = "ob_recv"]
    /\ afterClose' = [afterClose EXCEPT ![c] = closedOK]
    /\ UNCHANGED <<vvars, chBatch, maxTableRowCount, store, batch, res, closedOK>>

\* `<-tp.chBatch`
OpenBatchRecv(c) ==
    /\ pc[c] = "ob_recv"
    /\ chBatch > 0
    /\ chBatch' = chBatch - 1
    /\ pc' = [pc EXCEPT ![c] = "ob_begin"]
    /\ UNCHANGED <<vvars, maxTableRowCount, store, batch, res, afterClose, closedOK>>

\* tp.pool.BeginTx and, when it succeeds, the return of the batch
OpenBatchBeginTx(c) ==
    /\ pc[c] = "ob_begin"
    /\ \E ok \in BOOLEAN :
         IF ok
         THEN /\ batch' = [batch EXCEPT ![c] = NewBatch(store)]
              /\ pc' = [pc EXCEPT ![c] = "idle"]
              /\ res' = [res EXCEPT ![c] = Result("OpenBatch", NoErr)]
         ELSE /\ pc' = [pc EXCEPT ![c] = "ob_putback"]
              /\ UNCHANGED <<batch, res>>
    /\ UNCHANGED <<vvars, chBatch, maxTableRowCount, store, afterClose, closedOK>>

\* an error return that keeps the token
OpenBatchPutBack_TokenKept(c) ==
    /\ pc[c] = "ob_putback"
    /\ pc' = [pc EXCEPT ![c] = "idle"]
    /\ res' = [res EXCEPT ![c] = Result("OpenBatch", ErrorfS(OpaqueErr))]
    /\ UNCHANGED <<vvars, chBatch, maxTableRowCount, store, batch, afterClose, closedOK>>

\* `tp.chBatch <- struct{}{}` after a failed BeginTx, and the error return
OpenBatchPutBack(c) ==
    /\ pc[c] = "ob_putback"
    /\ chBatch < ChanCap
    /\ chBatch' = chBatch + 1
    /\ pc' = [pc EXCEPT ![c] = "idle"]
    /\ res' = [res EXCEPT ![c] = Result("OpenBatch", ErrorfS(OpaqueErr))]
    /\ UNCHANGED <<vvars, maxTableRowCount, store, batch, afterClose, closedOK>>

\* ---- TblTxnProcessor.Close ---------------------------------------------
ProcCloseCall(c) ==
    /\ pc[c] = "idle"
    /\ pc' = [pc EXCEPT ![c] = "pc_select"]
    /\ afterClose' = [afterClose EXCEPT ![c] = FALSE]
    /\ UNCHANGED <<vvars, chBatch, maxTableRowCount, store, batch, res, closedOK>>

\* case <-tp.chBatch
ProcCloseRecv(c) ==
    /\ pc[c] = "pc_select"
    /\ chBatch > 0
    /\ chBatch' = chBatch - 1
    /\ closedOK' = TRUE
    /\ pc' = [pc EXCEPT ![c] = "idle"]
    /\ res' = [res EXCEPT ![c] = Result("ProcClose", NoErr)]
    /\ UNCHANGED <<vvars, maxTableRowCount, store, batch, afterClose>>

\* a cancelled Close that has taken the token all the same
ProcCloseCtxDone_TakesToken(c) ==
    /\ pc[c] = "pc_select"
    /\ chBatch > 0
    /\ chBatch' = chBatch - 1
    /\ pc' = [pc EXCEPT ![c] = "idle"]
    /\ res' = [res EXCEPT ![c] = Result("ProcClose", OpaqueErr)]
    /\ UNCHANGED <<vvars, maxTableRowCount, store, batch, afterClose, closedOK>>

\* case <-ctx.Done()
ProcCloseCtxDone(c) ==
    /\ pc[c] = "pc_select"
    /\ pc' = [pc EXCEPT ![c] = "idle"]
    /\ res' = [res EXCEPT ![c] = Result("ProcClose", OpaqueErr)]
    /\ UNCHANGED <<vvars, chBatch, maxTableRowCount, store, batch, afterClose,
                   closedOK>>

\* ---- batch.InsertTable -------------------------------------------------
\* the value InsertTable computes on batch b for one input
InsertTableResult(b, id, controller, description, createStmt) ==
    LET r == BeginFunc(b.txn, b.view,
                       InsertTableFunc(b.view, id, controller, description,
                                       createStmt)) IN
    [view |-> r.view,
     err |-> IF r.err = NoErr THEN NoErr ELSE ErrorfS(r.err)]

InsertTable(c) ==
    /\ pc[c] = "idle"
    /\ HasBatch(c)
    /\ \E id \in TableIDs, controller \in Addrs, createStmt \in CreateStmts :
         LET r == InsertTableResult(batch[c], id, controller, "d",
                                    createStmt) IN
         /\ batch' = [batch EXCEPT ![c].view = r.view,
                                   ![c].failed = @ \/ r.err # NoErr]
         /\ res' = [res EXCEPT ![c] = Result("InsertTable", r.err)]
    /\ afterClose' = [afterClose EXCEPT ![c] = FALSE]
    /\ UNCHANGED <<vvars, chBatch, maxTableRowCount, store, pc, closedOK>>

\* ---- batch.ExecWriteQueries --------------------------------------------
\* the value ExecWriteQueries computes on batch b for one input
ExecWriteQueriesResult(b, db, maxRows, id, controller, mqueries) ==
    LET f == ExecWriteQueriesFunc(b.view, db, maxRows, id, controller,
                                  mqueries)
        r == BeginFunc(b.txn, b.view, f) IN
    [view |-> r.view,
     err |-> IF r.err = NoErr THEN NoErr ELSE ErrorfW(r.err),
     executed |-> IF b.txn = "open" THEN f.executed ELSE {}]

\* the row counts of the model stay within RowBound
WithinRowBound(view) == \A rn \in RelNames : view.rel[rn] <= RowBound

\* inputs: the statement sequences the caller draws its argument from
ExecWriteQueries(c, inputs) ==
    /\ pc[c] = "idle"
    /\ HasBatch(c)
    /\ \E id \in TableIDs, controller \in Addrs, mqueries \in inputs :
         LET r == ExecWriteQueriesResult(batch[c], store, maxTableRowCount,
                                         id, controller, mqueries) IN
         /\ WithinRowBound(r.view)
         /\ batch' = [batch EXCEPT ![c].view = r.view,
                                   ![c].failed = @ \/ r.err # NoErr]
         /\ res' = [res EXCEPT ![c] = Result("ExecWriteQueries", r.err)]
    /\ afterClose' = [afterClose EXCEPT ![c] = FALSE]
    /\ UNCHANGED <<vvars, chBatch, maxTableRowCount, store, pc, closedOK>>

\* ---- batch.Commit ------------------------------------------------------
\* a commit that publishes nothing of a batch on which a call has failed
CommitStore_AbortFailed(b) == IF b.failed THEN b.base ELSE b.view

\* what a successful commit of batch b makes the committed state
CommitStore(b) == b.view

\* a Commit that hands the token back
TokensAfterCommit_Returned(ch) == ChanCap

\* the tokens in tp.chBatch after Commit has run with ch tokens in it
TokensAfterCommit(ch) == ch

\* b.txn.Commit: a closed transaction gives ErrTxClosed; the store may
\* refuse the commit (serialization failure when another transaction has
\* committed since this one began, cancelled ctx, lost connection)
Commit(c) ==
    /\ pc[c] = "idle"
    /\ HasBatch(c)
    /\ \E ok \in BOOLEAN :
         IF batch[c].txn # "open"
         THEN /\ res' = [res EXCEPT ![c] = Result("Commit", ErrorfS(ErrTxClosed))]
              /\ UNCHANGED <<store, batch>>
         ELSE IF ok /\ store = batch[c].base
         THEN /\ store' = CommitStore(batch[c])
              /\ batch' = [batch EXCEPT ![c].txn = "committed"]
              /\ res' = [res EXCEPT ![c] = Result("Commit", NoErr)]
         ELSE /\ batch' = [batch EXCEPT ![c].txn = "rolledback",
                                        ![c].view = InitStore,
                                        ![c].base = InitStore]
              /\ res' = [res EXCEPT ![c] = Result("Commit", ErrorfS(OpaqueErr))]
              /\ UNCHANGED store
    /\ chBatch' = TokensAfterCommit(chBatch)
    /\ afterClose' = [afterClose EXCEPT ![c] = FALSE]
    /\ UNCHANGED <<vvars, maxTableRowCount, pc, closedOK>>

\* ---- batch.Close -------------------------------------------------------
\* a Close that returns without sending the token when the rollback fails
CloseRollback_NoSendOnError(c) ==
    /\ pc[c] = "idle"
    /\ HasBatch(c)
    /\ batch[c].closes < MaxClose
    /\ \E ok \in BOOLEAN :
         LET failed == batch[c].txn = "open" /\ ~ok IN
         /\ batch' = [batch EXCEPT
                ![c].txn = IF @ = "open" THEN "rolledback" ELSE @,
                ![c].view = InitStore,
                ![c].base = InitStore,
                ![c].closes = @ + 1]
         /\ res' = [res EXCEPT ![c] =
                Result("Close", IF failed THEN ErrorfS(OpaqueErr) ELSE NoErr)]
         /\ pc' = [pc EXCEPT ![c] = IF failed THEN "idle" ELSE "cl_send"]
    /\ afterClose' = [afterClose EXCEPT ![c] = FALSE]
    /\ UNCHANGED <<vvars, chBatch, maxTableRowCount, store, closedOK>>

\* b.txn.Rollback; the deferred send of the token is the next step
CloseRollback(c) ==
    /\ pc[c] = "idle"
    /\ HasBatch(c)
    /\ batch[c].closes < MaxClose
    /\ \E ok \in BOOLEAN :
         /\ batch' = [batch EXCEPT
                ![c].txn = IF @ = "open" THEN "rolledback" ELSE @,
                ![c].view = InitStore,
                ![c].base = InitStore,
                ![c].closes = @ + 1]
         /\ res' = [res EXCEPT ![c] =
                Result("Close",
                       IF batch[c].txn = "open" /\ ~ok
                       THEN ErrorfS(OpaqueErr) ELSE NoErr)]
    /\ pc' = [pc EXCEPT ![c] = "cl_send"]
    /\ afterClose' = [afterClose EXCEPT ![c] = FALSE]
    /\ UNCHANGED <<vvars, chBatch, maxTableRowCount, store, closedOK>>

\* a deferred function that returns without sending the token
CloseSend_TokenLost(c) ==
    /\ pc[c] = "cl_send"
    /\ batch' = [batch EXCEPT ![c].returned = @ + 1]
    /\ pc' = [pc EXCEPT ![c] = "idle"]
    /\ UNCHANGED <<vvars, chBatch, maxTableRowCount, store, res, afterClose, closedOK>>

\* defer func() { b.tp.chBatch <- struct{}{} }()
CloseSend(c) ==
    /\ pc[c] = "cl_send"
    /\ chBatch < ChanCap
    /\ chBatch' = chBatch + 1
    /\ batch' = [batch EXCEPT ![c].returned = @ + 1]
    /\ pc' = [pc EXCEPT ![c] = "idle"]
    /\ UNCHANGED <<vvars, maxTableRowCount, store, res, afterClose, closedOK>>

\* ------------------------------------------------------------------------
\* Spec: the callers run concurrently on one processor
\* ------------------------------------------------------------------------
Next ==
    \E c \in Callers :
        \/ OpenBatchCall(c)
        \/ OpenBatchRecv(c)
        \/ OpenBatchBeginTx(c)
        \/ OpenBatchPutBack(c)
        \/ ProcCloseCall(c)
        \/ ProcCloseRecv(c)
        \/ ProcCloseCtxDone(c)
        \/ Commit(c)
        \/ CloseRollback(c)
        \/ CloseSend(c)

Spec == Init /\ [][Next]_vars

\* the steps a call in progress takes by itself
Continue(c) ==
    \/ OpenBatchRecv(c)
    \/ OpenBatchBeginTx(c)
    \/ OpenBatchPutBack(c)
    \/ ProcCloseRecv(c)
    \/ CloseSend(c)

\* the scheduler runs every goroutine that can take its next step
FairSpec == Spec /\ \A c \in Callers : WF_vars(Continue(c))

\* the scheduler runs every goroutine, and a goroutine parked in
\* `<-tp.chBatch` is served when tokens keep arriving: the runtime queues the
\* receivers of a channel first in, first out
LiveSpec == Spec /\ \A c \in Callers : WF_vars(Continue(c)) /\ SF_vars(OpenBatchRecv(c))

\* ------------------------------------------------------------------------
\* BatchSpec: one caller runs its batches one after the other and draws the
\* arguments of InsertTable and ExecWriteQueries from the full input sets
\* ------------------------------------------------------------------------
NextBatch ==
    \/ OpenBatchCall("c1")
    \/ OpenBatchRecv("c1")
    \/ OpenBatchBeginTx("c1")
    \/ OpenBatchPutBack("c1")
    \/ InsertTable("c1")
    \/ ExecWriteQueries("c1", StmtSeqs)
    \/ Commit("c1")
    \/ CloseRollback("c1")
    \/ CloseSend("c1")

BatchSpec == Init /\ [][NextBatch]_vars

\* ------------------------------------------------------------------------
\* AclSpec: one caller runs its batches one after the other on a processor
\* without row cap; the statements are a grant that lists a privilege
\* twice, the revoke of that privilege and an UPDATE
\* ------------------------------------------------------------------------
AclShapes ==
    {GrantStmt("OpGrant", {"other"}, <<PrivUpdate, PrivUpdate>>),
     GrantStmt("OpRevoke", {"other"}, <<PrivUpdate>>),
     WriteStmt("OpUpdate", 1, FALSE, "")}
AclStmtSeqs == SeqsUpTo(AclShapes, MaxStmts)

InitAcl ==
    /\ chBatch = 1
    /\ maxTableRowCount = 0
    /\ store = InitStore
    /\ batch = [c \in Callers |-> NoBatch]
    /\ pc = [c \in Callers |-> "idle"]
    /\ res = [c \in Callers |-> NoResult]
    /\ afterClose = [c \in Callers |-> FALSE]
    /\ closedOK = FALSE
    /\ query = NoCall
    /\ validated = NotValidated
    /\ rawQueries = <<>>
    /\ revalidated = <<>>
    /\ argID = [c \in Callers |-> NoID]

NextAcl ==
    \/ OpenBatchCall("c1")
    \/ OpenBatchRecv("c1")
    \/ OpenBatchBeginTx("c1")
    \/ OpenBatchPutBack("c1")
    \/ InsertTable("c1")
    \/ ExecWriteQueries("c1", AclStmtSeqs)
    \/ Commit("c1")
    \/ CloseRollback("c1")
    \/ CloseSend("c1")

AclSpec == InitAcl /\ [][NextAcl]_vars


\* ------------------------------------------------------------------------
\* The validator's callers: the query is drawn when the validator is built,
\* one of the two entry points is applied to it, and an accepted CreateStmt
\* is then bound to table ids
\* ------------------------------------------------------------------------
SeqsFromTo(S, lo, hi) == UNION {[1..k -> S] : k \in lo..hi}

\* select c from rel
SelectFrom(rel) == SelectStmt(<<ResTarget(ColumnRef)>>, <<RangeVar(rel)>>, Nil, <<>>, 0)
\* values (e)
Values(e) == SelectStmt(<<>>, <<>>, Nil, <<List(<<e>>)>>, 0)

Leaves == {A_Const, SQLValueFunction, SubLink(SelectFrom(Bar)), SubLink(SelectFrom(SystemAcl))}
Wrappers(x) == {AExpr(ColumnRef, x), BoolExpr(<<x, A_Const>>), FuncCall(<<x>>)}

\* the expressions of nesting depth at most d
RECURSIVE ExprsUpTo(_)
ExprsUpTo(d) ==
    IF d = 0 THEN Leaves
    ELSE LET E == ExprsUpTo(d - 1) IN E \cup UNION {Wrappers(x) : x \in E}

Exprs == ExprsUpTo(MaxDepth)
Returnings == {<<>>, <<ResTarget(ColumnRef)>>}
FromClauses == {<<>>, <<RangeVar(Bar)>>, <<RangeVar(SystemAcl)>>}

UpdateStmts ==
    {UpdateStmt(r, <<ResTarget(tw[1])>>, f, tw[2], ret) :
        r \in Relnames,
        tw \in (Exprs \X {Nil}) \cup ({A_Const} \X Exprs),
        f \in FromClauses, ret \in Returnings}
InsertStmts ==
    {InsertStmt(r, src, ret) :
        r \in Relnames,
        src \in {Values(e) : e \in Exprs} \cup {SelectFrom(Bar), SelectFrom(SystemAcl)},
        ret \in Returnings}
DeleteStmts ==
    {DeleteStmt(r, u, w, ret) :
        r \in Relnames, u \in {<<>>, <<RangeVar(Bar)>>},
        w \in {Nil} \cup Exprs, ret \in Returnings}

FromItems(r) ==
    {RangeVar(r), JoinExpr(RangeVar(Foo), RangeVar(r)),
     JoinExpr(RangeVar(Foo), RangeSubselect(SelectFrom(r))),
     RangeSubselect(SelectFrom(r))}
SelectStmts ==
    {SelectStmt(<<ResTarget(ColumnRef)>>, <<f>>, w, <<>>, l) :
        f \in UNION {FromItems(r) : r \in Relnames},
        w \in {Nil, AExpr(ColumnRef, A_Const), AExpr(ColumnRef, SubLink(SelectFrom(Bar)))},
        l \in {0, 1}}

\* the statements of the payloads of several statements
Baz == <<"baz">>
SimpleStmts ==
    UNION {{InsertStmt(r, Values(A_Const), <<>>),
            UpdateStmt(r, <<ResTarget(A_Const)>>, <<>>, Nil, <<>>),
            DeleteStmt(r, <<>>, Nil, <<>>)} : r \in {Foo, Bar, Baz}}
    \cup {DeleteStmt(Foo, <<>>, Nil, <<ResTarget(ColumnRef)>>), SelectFrom(Foo)}

ColA == <<"a">>
ColB == <<"b">>
ColATextB == <<"a", ":", "text", ",", "b">>
TypeText == <<<<"text">>>>
TypeNamesLists == {TypeText, <<PgCatalog, <<"int4">>>>, <<<<"xml">>>>, <<PgCatalog>>, <<<<"text">>, <<"xml">>>>}
TableElts ==
    {ColumnDef(ColA, t, <<>>) : t \in TypeNamesLists}
    \cup {ColumnDef(ColA, TypeText, <<Constraint("CONSTR_NOTNULL")>>),
          ColumnDef(ColB, TypeText, <<>>),
          ColumnDef(ColATextB, TypeText, <<>>),
          Constraint("CONSTR_PRIMARY"), Constraint("CONSTR_UNIQUE")}

RunQueries ==
    {<<>>}
    \cup {<<s>> : s \in UpdateStmts \cup InsertStmts \cup DeleteStmts \cup SelectStmts}
    \cup SeqsFromTo(SimpleStmts, 1, MaxPayload)
    \cup {<<CreateStmt(Foo, <<ColumnDef(ColA, TypeText, <<>>)>>)>>}
CreateQueries ==
    {<<>>, <<SelectFrom(Foo)>>}
    \cup {<<CreateStmt(Foo, elts)>> : elts \in SeqsFromTo(TableElts, 1, MaxElts)}
    \cup {<<CreateStmt(Foo, <<ColumnDef(ColA, TypeText, <<>>)>>),
            CreateStmt(Bar, <<ColumnDef(ColA, TypeText, <<>>)>>)>>}

\* postgresparser.New and the query its caller holds; the processor is idle
InitValidator ==
    /\ chBatch = 1
    /\ maxTableRowCount = 0
    /\ store = InitStore
    /\ batch = [c \in Callers |-> NoBatch]
    /\ pc = [c \in Callers |-> "idle"]
    /\ res = [c \in Callers |-> NoResult]
    /\ afterClose = [c \in Callers |-> FALSE]
    /\ closedOK = FALSE
    /\ query \in {Call("ValidateRunSQL", p) : p \in RunQueries}
                 \cup {Call("ValidateCreateTable", p) : p \in CreateQueries}
    /\ validated = NotValidated
    /\ rawQueries = <<>>
    /\ revalidated = <<>>
    /\ argID = [c \in Callers |-> NoID]

ValidateRunSQLCall ==
    /\ query.api = "ValidateRunSQL"
    /\ validated.op = "none"
    /\ LET r == ValidateRunSQL(query.parsed, systemTablePrefix) IN
       validated' = Validation("ValidateRunSQL", r.queryType, r.writeStmts,
                               NoCreateStmt, r.err)
    /\ UNCHANGED <<pvars, query, rawQueries, revalidated, argID>>

ValidateCreateTableCall ==
    /\ query.api = "ValidateCreateTable"
    /\ validated.op = "none"
    /\ LET r == ValidateCreateTable(query.parsed, acceptedTypesNames) IN
       validated' = Validation("ValidateCreateTable", UndefinedQuery, <<>>,
                               r.createStmt, r.err)
    /\ UNCHANGED <<pvars, query, rawQueries, revalidated, argID>>

GetRawQueryForTableIDCall(id) ==
    /\ validated.op = "ValidateCreateTable"
    /\ validated.err = NoErr
    /\ Len(rawQueries) < MaxCalls
    /\ LET r == GetRawQueryForTableID(validated.createStmt, id) IN
       /\ validated' = [validated EXCEPT !.createStmt = r.createStmt]
       /\ rawQueries' = Append(rawQueries, [id |-> id, rawQuery |-> r.rawQuery])
    /\ UNCHANGED <<pvars, query, revalidated, argID>>

\* the caller hands the SQL of every returned write statement to
\* ValidateRunSQL again
RevalidateCall ==
    /\ validated.op = "ValidateRunSQL"
    /\ validated.writeStmts # <<>>
    /\ revalidated = <<>>
    /\ revalidated' =
          [i \in DOMAIN validated.writeStmts |->
              ValidateRunSQLQuery(validated.writeStmts[i].rawQuery,
                                  systemTablePrefix)]
    /\ UNCHANGED <<pvars, query, validated, rawQueries, argID>>

NextValidator ==
    \/ ValidateRunSQLCall
    \/ ValidateCreateTableCall
    \/ RevalidateCall
    \/ \E id \in TableIDs : GetRawQueryForTableIDCall(id)

ValidatorSpec == InitValidator /\ [][NextValidator]_vars

\* ------------------------------------------------------------------------
\* SharedStmtSpec: the goroutines call GetRawQueryForTableID on the one
\* CreateStmt that ValidateCreateTable has returned; the method takes no
\* lock, so the two statements of a call interleave with those of the others
\* ------------------------------------------------------------------------
InitSharedStmt == InitValidator /\ query.api = "ValidateCreateTable"

\* cs.cNode.GetCreateStmt().Relation.Relname = "t" + fmt.Sprintf(...)
SetRelname(c, id) ==
    /\ validated.op = "ValidateCreateTable"
    /\ validated.err = NoErr
    /\ pc[c] = "idle"
    /\ Len(rawQueries) + Cardinality({d \in Callers : argID[d] # NoID}) < MaxCalls
    /\ validated' = [validated EXCEPT !.createStmt = BindRelname(@, id)]
    /\ argID' = [argID EXCEPT ![c] = id]
    /\ pc' = [pc EXCEPT ![c] = "gr_deparse"]
    /\ UNCHANGED <<chBatch, maxTableRowCount, store, batch, res, afterClose, closedOK, query, rawQueries, revalidated>>

\* pg_query.Deparse of the shared cs.cNode, and the return of the SQL
DeparseShared(c) ==
    /\ pc[c] = "gr_deparse"
    /\ rawQueries' = Append(rawQueries, [id |-> argID[c], rawQuery |-> Deparse(validated.createStmt.cNode)])
    /\ argID' = [argID EXCEPT ![c] = NoID]
    /\ pc' = [pc EXCEPT ![c] = "idle"]
    /\ UNCHANGED <<chBatch, maxTableRowCount, store, batch, res, afterClose, closedOK, query, validated, revalidated>>

NextSharedStmt ==
    \/ ValidateCreateTableCall
    \/ \E c \in Callers, id \in TableIDs : SetRelname(c, id)
    \/ \E c \in Callers : DeparseShared(c)

SharedStmtSpec == InitSharedStmt /\ [][NextSharedStmt]_vars

\* ------------------------------------------------------------------------
\* Properties
\* ------------------------------------------------------------------------
\* a batch is open from the return of OpenBatch to the call of its Close
IsOpen(c) == HasBatch(c) /\ batch[c].closes = 0
OpenBatches == {c \in Callers : IsOpen(c)}

\* C1: at most one batch of the processor is open at any instant: from the
\* return of OpenBatch to the Close of the batch it returned no other
\* OpenBatch returns a batch.
C1_AtMostOneOpenBatch == Cardinality(OpenBatches) <= 1

\* C2: with a positive cap, the committed row count of every table a batch
\* has written is at most MaxRowCount, whatever the statements of the calls.
C2_CommittedWithinCap ==
    maxTableRowCount > 0 =>
        \A id \in TableIDs : store.rel[CountRelName(id)] <= maxTableRowCount

\* C3: when ExecWriteQueries returns an error, the state seen by the batch's
\* transaction is the one it had before the call: rows written and
\* system_acl changes of the statements before the failing one are undone.
C3_FailedCallLeavesNoEffect ==
    [][\A c \in Callers :
         (res'[c].op = "ExecWriteQueries" /\ res'[c].err # NoErr)
             => batch'[c].view = batch[c].view]_vars

\* a call has failed on the row cap after its INSERT ran, on a batch that
\* still holds the effects of an earlier call
C3_Witness ==
    \E c \in Callers :
        /\ res[c].op = "ExecWriteQueries"
        /\ res[c].err.typ = "ErrRowCountExceeded"
        /\ batch[c].txn = "open"
        /\ batch[c].view # batch[c].base

OpenFailedAfterClose(c) ==
    /\ afterClose[c]
    /\ pc[c] = "idle"
    /\ res[c].op = "OpenBatch"
    /\ res[c].err # NoErr

\* C5: every OpenBatch call made after Processor.Close has returned nil
\* returns an error, and none of them hands out a batch.
C5_OpenAfterCloseFails ==
    \A c \in Callers :
        /\ []((afterClose[c] /\ pc[c] = "idle") => res[c].err # NoErr)
        /\ []((afterClose[c] /\ pc[c] = "ob_recv")
                  => <>OpenFailedAfterClose(c))

\* C6: Processor.Close returns nil only when no batch is open, and no batch
\* is open at any time after it has returned nil.
C6_ClosedMeansNoOpenBatch == closedOK => OpenBatches = {}

\* C7: a second Close of a batch does not block on the token channel, and a
\* batch returns the token once however often it is closed.
C7_DoubleCloseSafe ==
    \A c \in Callers :
        /\ batch[c].returned <= 1
        /\ (pc[c] = "cl_send" /\ batch[c].closes >= 2) => chBatch < ChanCap

\* a step in which Commit returns nil on the batch of caller c
CommitStep(c) == batch[c].txn = "open" /\ batch'[c].txn = "committed"

\* C8 as stated: Commit returns the token, so that the token is in the
\* channel for a waiting OpenBatch once Commit has returned.
C8_CommitReturnsToken ==
    [][\A c \in Callers : CommitStep(c) => chBatch' = ChanCap]_vars

\* C8 amended: Commit leaves the token with the batch; the token goes back
\* into the channel only in the Close of a batch or when OpenBatch fails to
\* begin its transaction.
C8_OnlyCloseReturnsToken ==
    [][/\ \A c \in Callers : CommitStep(c) => chBatch' = chBatch
       /\ chBatch' > chBatch =>
            \E c \in Callers : /\ pc[c] \in {"cl_send", "ob_putback"}
                               /\ pc'[c] = "idle"]_vars

\* a batch is committed and not closed, the channel is empty and another
\* caller waits in OpenBatch
C8_Witness ==
    \E c, d \in Callers :
        /\ batch[c].txn = "committed"
        /\ batch[c].closes = 0
        /\ res[c].op = "Commit"
        /\ chBatch = 0
        /\ pc[d] = "ob_recv"

\* the first statement of mqueries that is an INSERT which ran and took the
\* table over the cap, counted from the row count the call began with
Breaches(mqueries, r, before, maxRows) ==
    {i \in r.executed : /\ mqueries[i].kind = "write"
                        /\ mqueries[i].op = "OpInsert"
                        /\ before + mqueries[i].rows > maxRows}

\* C9: with a positive cap, a call in which an INSERT affecting r rows ran
\* with before + r > MaxRowCount, before being the row count of the table
\* when the call began, fails with RowCountExceeded{before, before + r} and
\* leaves the row count at before.
C9_RowCountExceeded ==
    maxTableRowCount > 0 =>
        \A c \in Callers, id \in TableIDs, controller \in Addrs,
           mqueries \in StmtSeqs :
            LET before == batch[c].view.rel[CountRelName(id)]
                r == ExecWriteQueriesResult(batch[c], store, maxTableRowCount,
                                            id, controller, mqueries) IN
            \A i \in Breaches(mqueries, r, before, maxTableRowCount) :
                /\ r.err.typ = "ErrRowCountExceeded"
                /\ r.err.before = before
                /\ r.err.after = before + mqueries[i].rows
                /\ r.view.rel[CountRelName(id)] = before

\* ExecWriteQueries has failed with RowCountExceeded on a table that holds
\* rows, and the table has the row count the error reports as before
C9_Witness ==
    \E c \in Callers :
        /\ maxTableRowCount > 0
        /\ res[c].op = "ExecWriteQueries"
        /\ res[c].err.typ = "ErrRowCountExceeded"
        /\ res[c].err.before > 0
        /\ res[c].err.after > maxTableRowCount
        /\ batch[c].txn = "open"
        /\ batch[c].view.rel[CountRelName(1)] = res[c].err.before

\* C10 as stated: ExecWriteQueries returns the RowCountExceeded error
\* itself, with no wrapper around it.
C10_ReturnedAsItself ==
    \A c \in Callers :
        (res[c].op = "ExecWriteQueries"
         /\ res[c].err.typ = "ErrRowCountExceeded") => res[c].err.wraps = 0

\* C10 amended: ExecWriteQueries returns the RowCountExceeded error inside
\* one %w wrapper ("running nested txn"), so that it is still found by
\* unwrapping with its fields, and no statement after the breaching one is
\* executed.
C10_WrappedOnceAndShortCircuits ==
    maxTableRowCount > 0 =>
        \A c \in Callers, id \in TableIDs, controller \in Addrs,
           mqueries \in StmtSeqs :
            LET before == batch[c].view.rel[CountRelName(id)]
                r == ExecWriteQueriesResult(batch[c], store, maxTableRowCount,
                                            id, controller, mqueries) IN
            \A i \in Breaches(mqueries, r, before, maxTableRowCount) :
                /\ r.err.typ = "ErrRowCountExceeded"
                /\ r.err.wraps = 1
                /\ \A j \in r.executed : j <= i

\* ExecWriteQueries has returned a wrapped RowCountExceeded error
C10_Witness ==
    \E c \in Callers :
        /\ res[c].op = "ExecWriteQueries"
        /\ res[c].err.typ = "ErrRowCountExceeded"
        /\ res[c].err.wraps = 1
        /\ res[c].err.after > res[c].err.before
        /\ batch[c].failed

\* the three things InsertTable writes for table id and its controller
HasRegistryRow(view, id, controller, description, createStmt) ==
    view.reg[id] = [has |-> TRUE, controller |-> controller,
                    name |-> createStmt.namePrefix,
                    structure |-> createStmt.structureHash,
                    description |-> description]
HasOwnerAclRow(view, id, controller) ==
    view.acl[<<id, controller>>] =
        [has |-> TRUE,
         privs |-> PrivilegesArray(<<PrivInsert, PrivUpdate, PrivDelete>>)]
HasCreatedRelation(view, id) == view.rel[CreateRelName(id)] # NoRel
NoneOfTheThree(view, id, controller) ==
    /\ ~view.reg[id].has
    /\ ~view.acl[<<id, controller>>].has
    /\ view.rel[CreateRelName(id)] = NoRel

\* C11: InsertTable is all-or-nothing.  On every batch and for every input,
\* a successful call leaves in the batch's transaction the registry row
\* (id, controller, name prefix, structure hash, description), the
\* system_acl row giving the controller exactly {a, w, d} and the created
\* relation; a failed call leaves the transaction as it was, so that none
\* of the three exists for a table that had none of them before the call.
C11_InsertTableAllOrNothing ==
    \A c \in Callers, id \in TableIDs, controller \in Addrs, createStmt \in CreateStmts :
        HasBatch(c) =>
            LET r == InsertTableResult(batch[c], id, controller, "d",
                                       createStmt) IN
            IF r.err = NoErr
            THEN /\ HasRegistryRow(r.view, id, controller, "d", createStmt)
                 /\ HasOwnerAclRow(r.view, id, controller)
                 /\ HasCreatedRelation(r.view, id)
            ELSE /\ r.view = batch[c].view
                 /\ NoneOfTheThree(batch[c].view, id, controller)
                        => NoneOfTheThree(r.view, id, controller)

\* a batch holds a table inserted by a successful call, and its last call
\* was an InsertTable that failed on that open batch
C11_Witness ==
    \E c \in Callers :
        /\ res[c].op = "InsertTable"
        /\ res[c].err # NoErr
        /\ batch[c].txn = "open"
        /\ HasRegistryRow(batch[c].view, 2, "owner", "d",
                          [namePrefix |-> "bar", structureHash |-> "h2",
                           fails |-> FALSE])
        /\ HasOwnerAclRow(batch[c].view, 2, "owner")
        /\ HasCreatedRelation(batch[c].view, 2)

\* C12: the relation InsertTable creates for table id N is the relation
\* whose rows ExecWriteQueries counts for id N: after a successful
\* InsertTable of id N the counted relation of N exists in the batch's
\* transaction.
C12_CreatedRelationIsCounted ==
    \A c \in Callers, id \in TableIDs, controller \in Addrs, createStmt \in CreateStmts :
        HasBatch(c) =>
            LET r == InsertTableResult(batch[c], id, controller, "d",
                                       createStmt) IN
            r.err = NoErr => r.view.rel[CountRelName(id)] # NoRel

\* a node of the given kind occurs in the tree of n, at any depth and under
\* any kind of node
RECURSIVE Occurs(_, _)
Occurs(n, kind) ==
    \/ n.kind = kind
    \/ \E i \in DOMAIN Children(n) : Occurs(Children(n)[i], kind)

\* ValidateRunSQL has accepted the payload as a write
AcceptedWrite ==
    /\ validated.op = "ValidateRunSQL"
    /\ validated.err = NoErr
    /\ validated.queryType = WriteQuery

\* C13: ValidateRunSQL accepts a write statement only if no SQLValueFunction
\* node occurs anywhere in its tree, at any depth and under any node kind.
C13_NoNonDeterministicFunction ==
    AcceptedWrite =>
        \A i \in DOMAIN query.parsed :
            ~Occurs(query.parsed[i], "SQLValueFunction")

\* the node is a join or a subquery of a mutation: a sub-select, a sublink,
\* a join expression, an UPDATE with a FROM clause, a SELECT without a
\* VALUES list
IsJoinOrSubquery(n) ==
    \/ n.kind \in {"SubLink", "RangeSubselect", "JoinExpr"}
    \/ n.kind = "SelectStmt" /\ n.valuesLists = <<>>
    \/ n.kind = "UpdateStmt" /\ n.fromClause # <<>>

RECURSIVE HoldsJoinOrSubquery(_)
HoldsJoinOrSubquery(n) ==
    \/ IsJoinOrSubquery(n)
    \/ \E i \in DOMAIN Children(n) : HoldsJoinOrSubquery(Children(n)[i])

\* C14: ValidateRunSQL accepts an INSERT, UPDATE or DELETE only if the
\* statement holds no join and no subquery anywhere in its tree.
C14_NoJoinOrSubquery ==
    AcceptedWrite =>
        \A i \in DOMAIN query.parsed : ~HoldsJoinOrSubquery(query.parsed[i])

\* the names of the system tables: registry, system_acl and every relation
\* whose name starts with the system prefix
IsSystemRelname(relname) ==
    relname \in {Registry, SystemAcl} \/ HasPrefix(relname, systemTablePrefix)

RECURSIVE ReferencesSystemTable(_)
ReferencesSystemTable(n) ==
    \/ n.kind = "RangeVar" /\ IsSystemRelname(n.relname)
    \/ \E i \in DOMAIN Children(n) : ReferencesSystemTable(Children(n)[i])

\* C15: no write statement accepted by ValidateRunSQL references registry,
\* system_acl or a relation whose name starts with the system prefix, as
\* its target relation or anywhere else in its tree.
C15_NoSystemTableInAcceptedWrite ==
    AcceptedWrite =>
        \A i \in DOMAIN query.parsed : ~ReferencesSystemTable(query.parsed[i])

\* C16: ValidateRunSQL rejects with SystemTableReferencing every SELECT that
\* references a relation whose name starts with the system prefix, directly
\* in FROM, through a join arm or through a nested sub-select (the SELECT
\* has nothing else to be rejected for: no WHERE, no locking clause).
C16_SelectOnSystemTableRejected ==
    \A r \in Relnames : \A f \in FromItems(r) :
        (/\ validated.op = "ValidateRunSQL"
         /\ Len(query.parsed) = 1
         /\ query.parsed[1].kind = "SelectStmt"
         /\ query.parsed[1].fromClause = <<f>>
         /\ query.parsed[1].whereClause = Nil
         /\ query.parsed[1].lockingClause = 0
         /\ HasPrefix(r, systemTablePrefix))
            => validated.err.typ = "ErrSystemTableReferencing"

\* statement i of the payload is by itself an acceptable write
ValidWrite(i) ==
    validateWriteQuery(query.parsed[i], systemTablePrefix).err = NoErr
\* the table statement i references
TableOf(i) == getReferencedTable(query.parsed[i]).table
\* the statements whose table is not the one of the first statement
Disagreeing == {i \in DOMAIN query.parsed : TableOf(i) # TableOf(1)}

DropPgCatalog(names) ==
    IF names # <<>> /\ Head(names) = PgCatalog THEN Tail(names) ELSE names
\* that type name is a name of the accepted-types list
HasAcceptedType(col) ==
    LET names == DropPgCatalog(col.names) IN
    Len(names) = 1 /\ names[1] \in acceptedTypesNames
\* the column definitions among the elements of a CREATE TABLE
ColumnDefsOf(tableElts) == SelectSeq(tableElts, LAMBDA e : e.kind = "ColumnDef")

\* ValidateCreateTable has run on a single CREATE TABLE statement
ValidatedSingleCreate ==
    /\ validated.op = "ValidateCreateTable"
    /\ Len(query.parsed) = 1
    /\ query.parsed[1].kind = "CreateStmt"

\* C18: ValidateCreateTable accepts a single CREATE TABLE exactly when every
\* column's type name, after a pg_catalog prefix is dropped, is in the
\* accepted-types list.
C18_AcceptedIffAcceptedTypes ==
    ValidatedSingleCreate =>
        LET cols == ColumnDefsOf(query.parsed[1].tableElts) IN
        (validated.err = NoErr) <=>
            \A i \in DOMAIN cols : HasAcceptedType(cols[i])

\* the sequence of (column name, type name) pairs a CREATE TABLE declares
DeclaredPairs(cNode) ==
    LET cols == ColumnDefsOf(cNode.tableElts) IN
    [i \in DOMAIN cols |-> <<cols[i].colname, DropPgCatalog(cols[i].names)>>]
\* a single CREATE TABLE all of whose columns have an accepted type
WellTypedCreate(parsed) ==
    /\ Len(parsed) = 1
    /\ parsed[1].kind = "CreateStmt"
    /\ LET cols == ColumnDefsOf(parsed[1].tableElts) IN
       \A i \in DOMAIN cols : HasAcceptedType(cols[i])

\* C19: two accepted CREATE statements have the same structure hash exactly
\* when they declare the same sequence of (column name, type name) pairs
\* (both statements have columns of accepted types only).
C19_SameHashIffSamePairs ==
    (ValidatedSingleCreate /\ validated.err = NoErr
     /\ WellTypedCreate(query.parsed))
        => \A other \in CreateQueries :
              WellTypedCreate(other) =>
                 LET r == ValidateCreateTable(other, acceptedTypesNames) IN
                 r.err = NoErr =>
                    ((r.createStmt.structureHash = validated.createStmt.structureHash)
                        <=> DeclaredPairs(other[1]) = DeclaredPairs(query.parsed[1]))

\* where the relation name stands in the SQL of a bound CREATE TABLE: after
\* the CREATE TABLE keyword, the letter t, 0x and the digits
RelnamePositions == 2..(3 + HexWidth)
\* two SQL texts differ at most in the relation name
DifferOnlyInRelname(q1, q2) ==
    /\ Len(q1) = Len(q2)
    /\ \A k \in DOMAIN q1 : q1[k] # q2[k] => k \in RelnamePositions

\* C20: on one accepted CreateStmt, in any order of calls, two calls of
\* GetRawQueryForTableID with the same id return the same SQL, and two calls
\* with different ids return SQL that differs, and only in the relation name.
C20_RawQueryDependsOnIdOnly ==
    \A i \in DOMAIN rawQueries, j \in DOMAIN rawQueries :
        /\ rawQueries[i].id = rawQueries[j].id
              => rawQueries[i].rawQuery = rawQueries[j].rawQuery
        /\ rawQueries[i].id # rawQueries[j].id
              => /\ rawQueries[i].rawQuery # rawQueries[j].rawQuery
                 /\ DifferOnlyInRelname(rawQueries[i].rawQuery,
                                        rawQueries[j].rawQuery)

\* a CreateStmt with two columns and a table constraint has been bound to
\* id 1, then to id 2, then to id 1 again
C20_Witness ==
    /\ Len(rawQueries) = 3
    /\ rawQueries[1].id = 1
    /\ rawQueries[2].id = 2
    /\ rawQueries[3].id = 1
    /\ Len(query.parsed[1].tableElts) = 3
    /\ validated.createStmt.cNode.relation.relname = <<"t">> \o SprintfTableID(1)

ParseInvertsDeparse ==
    \A i \in DOMAIN query.parsed :
        query.parsed[i].kind # "CreateStmt"
            => Parse(Deparse(query.parsed[i])).stmts = <<query.parsed[i]>>

\* the grants and revokes of the claims on system_acl: one or both roles,
\* every privilege list of one or two entries
MaxPrivs == 2
GrantInputs ==
    {GrantStmt(op, roles, privs) :
        op \in {"OpGrant", "OpRevoke"},
        roles \in {{"other"}, {"owner"}, {"owner", "other"}},
        privs \in SeqsFromTo(Privs, 1, MaxPrivs)}
Update1 == WriteStmt("OpUpdate", 1, FALSE, "")
\* controller is the owner of table id in the registry the transaction sees
OwnsIn(view, controller, id) ==
    view.reg[id].has /\ view.reg[id].controller = controller

\* C22: a grant or revoke executed for a caller who is not the owner of the
\* table fails and leaves system_acl as it was, inside the savepoint (no row
\* is written before the ownership check) and after the call.
C22_NonOwnerGrantFails ==
    \A c \in Callers, id \in TableIDs, controller \in Addrs, gs \in GrantInputs :
        (batch[c].txn = "open" /\ ~OwnsIn(batch[c].view, controller, id)) =>
            LET view == batch[c].view
                g == executeGrantStmt(view, store, id, gs, controller) IN
            /\ g.err # NoErr
            /\ g.tx.acl = view.acl
            /\ \A mqueries \in {<<gs>>, <<Update1, gs>>} :
                  LET r == ExecWriteQueriesResult(batch[c], store,
                               maxTableRowCount, id, controller, mqueries) IN
                  /\ r.err # NoErr
                  /\ r.view.acl = view.acl
                  /\ Len(mqueries) \notin r.executed

\* on an open batch a call of ExecWriteQueries has failed; the address other
\* holds privileges on table 1, is not its owner, and its grant is refused
\* after its UPDATE has run
C22_Witness ==
    \E c \in Callers :
        /\ batch[c].txn = "open"
        /\ res[c].op = "ExecWriteQueries"
        /\ res[c].err # NoErr
        /\ HeldPrivs(batch[c].view.acl[<<1, "other">>]) = {PrivUpdate}
        /\ ~OwnsIn(batch[c].view, "other", 1)
        /\ LET gs == GrantStmt("OpGrant", {"other"}, <<PrivDelete>>)
               f == ExecWriteQueriesFunc(batch[c].view, store, maxTableRowCount,
                                         1, "other", <<Update1, gs>>) IN
           f.err # NoErr /\ f.executed = {1}

\* the row a grant of privs leaves for a role whose row was old: the union
\* of the two as a set, every privilege once
UnionRow(old, privs) ==
    [has |-> TRUE,
     privs |-> [p \in Privs |->
                  IF old.privs[p] > 0 \/ Count(privs, p) > 0 THEN 1 ELSE 0]]
\* the row a revoke of privs leaves
RevokedRow(old, privs) ==
    [old EXCEPT !.privs = [p \in Privs |-> IF Count(privs, p) > 0 THEN 0 ELSE @[p]]]

\* C23: a grant leaves in the row of each role the set union of the row's
\* privileges and the listed ones, every privilege once, and creates a row
\* that is missing; granting twice is granting once; a revoke removes the
\* listed privileges from each role's row; neither changes another row, the
\* registry or a relation.
C23_GrantIsSetUnionRevokeExact ==
    \A c \in Callers, id \in TableIDs, controller \in Addrs, gs \in GrantInputs :
        batch[c].txn = "open" =>
            LET view == batch[c].view
                g == executeGrantStmt(view, store, id, gs, controller) IN
            g.err = NoErr =>
                /\ \A k \in DOMAIN view.acl :
                      g.tx.acl[k] =
                        IF k[1] = id /\ k[2] \in gs.roles
                        THEN IF gs.op = "OpGrant"
                             THEN UnionRow(view.acl[k], gs.privs)
                             ELSE RevokedRow(view.acl[k], gs.privs)
                        ELSE view.acl[k]
                /\ g.tx.reg = view.reg
                /\ g.tx.rel = view.rel
                /\ gs.op = "OpGrant" =>
                      executeGrantStmt(g.tx, store, id, gs, controller).tx = g.tx

\* the privilege an operation needs
PrivilegeOf(op) ==
    CASE op = "OpInsert" -> PrivInsert
      [] op = "OpUpdate" -> PrivUpdate
      [] op = "OpDelete" -> PrivDelete

\* the payloads of the claim on privilege checks: the three writes, a grant
\* and a revoke that change what the callers hold
PrivShapes ==
    {WriteStmt(op, 1, FALSE, "") : op \in {"OpInsert", "OpUpdate", "OpDelete"}}
    \cup {GrantStmt("OpGrant", {"other"}, <<PrivDelete>>),
          GrantStmt("OpRevoke", {"owner"}, <<PrivInsert>>)}
PrivStmtSeqs == SeqsFromTo(PrivShapes, 1, MaxStmts)

\* C24: the SQL of a write statement of ExecWriteQueries is executed only
\* when the caller's system_acl row, as the statements before it have left
\* it, holds the privilege of the operation (insert for INSERT, update for
\* UPDATE, delete for DELETE); when the row lacks it, the statement is not
\* executed and the call fails.
C24_WriteRunsOnlyIfPrivileged ==
    \A c \in Callers, id \in TableIDs, controller \in Addrs, mqueries \in PrivStmtSeqs :
        batch[c].txn = "open" =>
            LET view == batch[c].view
                r == ExecWriteQueriesResult(batch[c], store, maxTableRowCount,
                                            id, controller, mqueries) IN
            \A i \in DOMAIN mqueries :
                mqueries[i].kind = "write" =>
                    LET before == ExecWriteQueriesFunc(view, store,
                                      maxTableRowCount, id, controller,
                                      SubSeq(mqueries, 1, i - 1))
                        held == HeldPrivs(before.tx.acl[<<id, controller>>]) IN
                    /\ i \in r.executed =>
                          (before.err = NoErr /\ PrivilegeOf(mqueries[i].op) \in held)
                    /\ (before.err = NoErr /\ PrivilegeOf(mqueries[i].op) \notin held)
                          => (i \notin r.executed /\ r.err # NoErr)

\* on an open batch the address other holds the update privilege alone on
\* table 1: its UPDATE is executed, its DELETE is refused
C24_Witness ==
    \E c \in Callers :
        /\ batch[c].txn = "open"
        /\ res[c].op = "ExecWriteQueries"
        /\ HeldPrivs(batch[c].view.acl[<<1, "other">>]) = {PrivUpdate}
        /\ LET r == ExecWriteQueriesResult(batch[c], store, maxTableRowCount, 1,
                        "other", <<Update1, WriteStmt("OpDelete", 1, FALSE, "")>>) IN
           r.err # NoErr /\ r.executed = {1}

\* C25: every ACL call of ExecWriteQueries reads the batch's own
\* transaction: on an open batch a grant or revoke is let through exactly
\* when the caller owns the table in the registry the transaction sees, so
\* also for a table registered earlier in the same batch, and a write
\* exactly when the caller's row in the transaction holds the privilege.
C25_AclReadsBatchTransaction ==
    \A c \in Callers, id \in TableIDs, controller \in Addrs :
        batch[c].txn = "open" =>
            LET view == batch[c].view IN
            /\ \A gs \in GrantInputs :
                  (executeGrantStmt(view, store, id, gs, controller).err = NoErr)
                      <=> OwnsIn(view, controller, id)
            /\ \A op \in DOMAIN operationPrivilegeMap :
                  (CheckPrivileges(view, controller, id, op) = NoErr)
                      <=> PrivilegeOf(op) \in HeldPrivs(view.acl[<<id, controller>>])

\* a step in which a call of caller c returns
Returns(c, op) == pc[c] # "idle" /\ pc'[c] = "idle" /\ res'[c].op = op

\* C26: a batch keeps the token it was opened with until its Close: it has
\* returned none while it is open, a Commit leaves the token with the batch
\* and the channel as it is, and every call of Close sends one token when
\* it returns, whether the rollback succeeded, failed with an error or met
\* a transaction that was already committed.
C26_TokenHeldUntilClose ==
    /\ [](\A c \in Callers :
            /\ IsOpen(c) => batch[c].returned = 0
            /\ pc[c] = "idle" => batch[c].returned = batch[c].closes)
    /\ [][\A c \in Callers :
            /\ CommitStep(c) =>
                  /\ chBatch' = chBatch
                  /\ batch'[c].returned = 0
                  /\ IsOpen(c)'
            /\ Returns(c, "Close") =>
                  /\ chBatch' = chBatch + 1
                  /\ batch'[c].returned = batch[c].returned + 1]_vars

\* one caller's Close has returned an error and its token, the other's
\* batch was committed and then closed, and the token is in the channel
C26_Witness ==
    \E c, d \in Callers :
        /\ pc[c] = "idle" /\ pc[d] = "idle"
        /\ res[c].op = "Close" /\ res[c].err # NoErr
        /\ batch[c].closes = 1 /\ batch[c].returned = 1
        /\ res[d].op = "Close" /\ res[d].err = NoErr
        /\ batch[d].txn = "committed"
        /\ batch[d].closes = 1 /\ batch[d].returned = 1
        /\ chBatch = 1

\* C27: an OpenBatch whose BeginTx fails returns an error, hands out no
\* batch and puts the token back before it returns, so that the token is
\* in the channel for a later OpenBatch; no OpenBatch returns an error
\* without having put the token back.
C27_FailedOpenPutsTokenBack ==
    [][\A c \in Callers :
         /\ (pc[c] = "ob_putback" /\ pc'[c] # "ob_putback") =>
               /\ Returns(c, "OpenBatch")
               /\ res'[c].err # NoErr
               /\ batch'[c] = batch[c]
               /\ chBatch' = chBatch + 1
         /\ (Returns(c, "OpenBatch") /\ res'[c].err # NoErr) =>
               /\ pc[c] = "ob_putback"
               /\ chBatch' > 0]_vars

\* no batch has been handed out yet, the OpenBatch of one caller has failed
\* and the other caller has since taken the token in its OpenBatch
C27_Witness ==
    \E c, d \in Callers :
        /\ \A e \in Callers : ~HasBatch(e)
        /\ pc[c] = "idle"
        /\ res[c].op = "OpenBatch" /\ res[c].err # NoErr
        /\ pc[d] = "ob_begin"
        /\ chBatch = 0

\* C29: a Processor.Close that returns an error has not taken the token: the
\* channel, the batches and the closed state of the processor are as they
\* were, so an outstanding batch stays open and the token it returns is
\* there for OpenBatch; a Close that takes the token returns nil.
C29_CancelledCloseTakesNothing ==
    [][\A c \in Callers :
         Returns(c, "ProcClose") =>
            /\ res'[c].err # NoErr =>
                  /\ chBatch' = chBatch
                  /\ batch' = batch
                  /\ closedOK' = closedOK
            /\ chBatch' # chBatch =>
                  /\ res'[c].err = NoErr
                  /\ chBatch' = chBatch - 1]_vars

\* Processor.Close has returned an error to one caller while the other
\* holds a batch it has not closed; the processor is not closed
C29_Witness ==
    \E c, d \in Callers :
        /\ pc[c] = "idle"
        /\ res[c].op = "ProcClose" /\ res[c].err # NoErr
        /\ IsOpen(d)
        /\ chBatch = 0
        /\ ~closedOK

\* every batch that is opened is closed later on
EveryBatchIsClosed == \A d \in Callers : [](IsOpen(d) => <>(~IsOpen(d)))

C30_EachCallReturnsItsOwnSQL ==
    \A i \in DOMAIN rawQueries :
        rawQueries[i].rawQuery = GetRawQueryForTableID(validated.createStmt, rawQueries[i].id).rawQuery

====
